---- MODULE Spec2Model ----
(***************************************************************************)
(* Model of the task lifecycle and output streaming controller of the      *)
(* trns Telegram bot: src/src/trns/bot/routes.py (registry, handlers,      *)
(* orchestrators, output sender), src/src/trns/bot/output_handler.py       *)
(* (chunked delivery) and src/src/trns/bot/utils.py (daily capacity).      *)
(***************************************************************************)
EXTENDS Integers, Sequences, FiniteSets, TLC

(***************************************************************************)
(* Bounds of the model.                                                    *)
(***************************************************************************)
\* Start requests (jobs) and cancel requests of the lifecycle specification.
NumJobs == 2
NumCancels == 1
\* Cancel requests of one job in the repeated-cancel specification.
NumTwice == 2
\* Fragments one worker prints, in the lifecycle and in the streaming specification.
MaxEmit == 1
MaxStreamEmit == 3
\* Longest input text of the chunking specification, in runs of one character.
MaxRuns == 3
\* Days the capacity specification lets pass.
MaxDay == 2
\* Fragments one worker prints in the shared-flag specification.
MaxDrainEmit == 2
\* Threads of the concurrent capacity specification, one call each.
NumThreads == 3

(***************************************************************************)
(* Program constants.                                                      *)
(***************************************************************************)
max_length == 4000
max_retries == 3
DAILY_CAPACITY == 1000
WARNING_THRESHOLD == 50

(***************************************************************************)
(* Texts.  A Python str is kept run-length encoded: a sequence of runs     *)
(* [c, n] (n > 0 copies of character c) in which neighbouring runs carry   *)
(* different characters, so that two texts are equal exactly when the      *)
(* strings are.  "nl" is the line break, "sp" a blank, "a" any character   *)
(* that is neither whitespace nor a bracket, "lb" and "rb" are '[' and ']'.*)
(***************************************************************************)
Whitespace == {"nl", "sp"}
Empty == <<>>
Run(ch, k) == [c |-> ch, n |-> k]

RECURSIVE TLen(_)
TLen(t) == IF t = <<>> THEN 0 ELSE Head(t).n + TLen(Tail(t))

RECURSIVE Norm(_)
Norm(t) ==
  IF t = <<>> THEN <<>>
  ELSE IF Head(t).n = 0 THEN Norm(Tail(t))
  ELSE LET r == Norm(Tail(t))
       IN  IF r # <<>> /\ Head(r).c = Head(t).c
           THEN <<Run(Head(t).c, Head(t).n + Head(r).n)>> \o Tail(r)
           ELSE <<Head(t)>> \o r

\* s + t, of two texts in that form
Cat(s, t) ==
  IF s = <<>> THEN t
  ELSE IF t = <<>> THEN s
  ELSE IF s[Len(s)].c = t[1].c
  THEN SubSeq(s, 1, Len(s) - 1) \o <<Run(t[1].c, s[Len(s)].n + t[1].n)>> \o Tail(t)
  ELSE s \o t

\* text[:k]
RECURSIVE Prefix(_, _)
Prefix(t, k) ==
  IF t = <<>> \/ k <= 0 THEN <<>>
  ELSE IF Head(t).n <= k THEN <<Head(t)>> \o Prefix(Tail(t), k - Head(t).n)
  ELSE <<Run(Head(t).c, k)>>

\* text[k:]
RECURSIVE Suffix(_, _)
Suffix(t, k) ==
  IF t = <<>> THEN <<>>
  ELSE IF k <= 0 THEN t
  ELSE IF Head(t).n <= k THEN Suffix(Tail(t), k - Head(t).n)
  ELSE <<Run(Head(t).c, Head(t).n - k)>> \o Tail(t)

\* text.rfind(ch): the index of the last ch, -1 when there is none
RECURSIVE RFind(_, _)
RFind(t, ch) ==
  IF t = <<>> THEN -1
  ELSE IF t[Len(t)].c = ch THEN TLen(t) - 1
  ELSE RFind(SubSeq(t, 1, Len(t) - 1), ch)

\* not text.strip()  (also true of the empty text)
IsBlank(t) == \A i \in DOMAIN t : t[i].c \in Whitespace

\* ch in text
Contains(t, ch) == \E i \in DOMAIN t : t[i].c = ch

\* the text with its whitespace characters deleted
RECURSIVE NonWs(_)
NonWs(t) ==
  IF t = <<>> THEN <<>>
  ELSE IF Head(t).c \in Whitespace THEN NonWs(Tail(t))
  ELSE Cat(<<Head(t)>>, NonWs(Tail(t)))

\* the concatenation of a sequence of texts
RECURSIVE Join(_)
Join(ts) == IF ts = <<>> THEN <<>> ELSE Cat(Head(ts), Join(Tail(ts)))

(***************************************************************************)
(* send_text_to_telegram: the splitting loop.                              *)
(***************************************************************************)
\* last_newline > max_length * 0.7, in integers
CutAtNewlineInclusive(last_newline) == last_newline * 10 >= max_length * 7
CutAtNewline(last_newline) == last_newline * 10 > max_length * 7

\* chunk = text[:ChunkEnd]: where one turn of the loop ends its chunk
ChunkEndPastLimit(text) ==
  LET last_newline == RFind(Prefix(text, max_length), "nl")
  IN  IF CutAtNewline(last_newline) THEN last_newline + 1 ELSE max_length + 1
ChunkEnd(text) ==
  LET last_newline == RFind(Prefix(text, max_length), "nl")
  IN  IF CutAtNewline(last_newline) THEN last_newline + 1 ELSE max_length

\* text = text[RestStart:]: where the same turn lets the rest begin
RestStartSkipsOne(text) ==
  LET last_newline == RFind(Prefix(text, max_length), "nl")
  IN  IF CutAtNewline(last_newline) THEN last_newline + 2 ELSE max_length + 1
RestStart(text) ==
  LET last_newline == RFind(Prefix(text, max_length), "nl")
  IN  IF CutAtNewline(last_newline) THEN last_newline + 1 ELSE max_length

\* the turns of the while loop: <<text before, chunk, text after>>
RECURSIVE SplitTurns(_)
SplitTurns(text) ==
  IF TLen(text) > max_length
  THEN <<[before |-> text,
          chunk |-> Prefix(text, ChunkEnd(text)),
          rest |-> Suffix(text, RestStart(text))]>>
       \o SplitTurns(Suffix(text, RestStart(text)))
  ELSE <<>>

\* what is left when the loop ends
Remainder(text) ==
  LET turns == SplitTurns(text)
  IN  IF turns = <<>> THEN text ELSE turns[Len(turns)].rest

\* the list `chunks` after the loop and the append of the remainder
SplitChunks(text) ==
  [i \in 1..Len(SplitTurns(text)) |-> SplitTurns(text)[i].chunk]
    \o (IF IsBlank(Remainder(text)) THEN <<>> ELSE <<Remainder(text)>>)

\* the first chunk at or after index i that the send loop does not skip, 0 if none
RECURSIVE NextSendable(_, _)
NextSendable(cs, i) ==
  IF i > Len(cs) THEN 0
  ELSE IF IsBlank(cs[i]) THEN NextSendable(cs, i + 1)
  ELSE i

(***************************************************************************)
(* State.                                                                  *)
(***************************************************************************)
\* the requests of the first owner, and after them one request of another
OwnJobs == 1..NumJobs
Jobs == 1..(NumJobs + 1)
Cancels == 1..NumTwice
\* the calls of cancel_user_processing: those of the cancel commands, and
\* after them the call of the server's shutdown for each owner
Requests == 1..(NumTwice + 2)
ShutdownCall(o) == NumTwice + o
\* the cancel requests of the lifecycle specifications
LifeCancels == 1..NumCancels
Owners == {1, 2}
\* message.from_user.id of a request
OwnerOf(j) == IF j <= NumJobs THEN 1 ELSE 2
CancelOwner(c) == IF c > NumTwice THEN c - NumTwice ELSE 1
\* which handler serves request j and the "type" it registers
KindOf(j) == IF j % 3 = 1 THEN "youtube" ELSE IF j % 3 = 2 THEN "file" ELSE "twitter"

VARIABLES
  user_processing_tasks, \* owner -> entry (Absent when the key is not in the dict)
  shutdown_flag,         \* job -> is the threading.Event created by its handler set
  removals,              \* owner -> how many times its key was deleted (history)
  regEpoch,              \* job -> removals of its owner when its request was decided, -1 before
  hpc,                   \* job -> where its request handler stands
  opc,                   \* job -> where its orchestrator task (process_with_cleanup) stands
  oflag,                 \* job -> the job whose shutdown_flag its orchestrator read, 0 if none
  ocancel,               \* job -> Task.cancel() was called on the orchestrator, not yet raised
  notices,               \* job -> notices its orchestrator handed to client.send_message
  agg,                   \* job -> its output task (send_output_task) and the delivery in it
  acancel,               \* job -> Task.cancel() was called on the output task, not yet raised
  sendLog,               \* job -> one entry per finished attempt of client.send_message
  wpc,                   \* job -> where its worker thread (run_pipeline) stands
  xfut,                  \* job -> state of executor_task, the future of run_in_executor
  output_queue,          \* job -> its queue.Queue
  pushed,                \* job -> every item ever put in its queue (history)
  emitted,               \* job -> fragments its worker printed
  builtins_print,        \* 0: the original print, j: capture_print of job j
  original_print,        \* job -> builtins.print as its orchestrator saved it
  cpc,                   \* cancel request -> where cancel_user_processing stands
  cinfo,                 \* cancel request -> its copy task_info
  metadata,              \* metadata.json: daily_capacity and last_capacity_date
  today,                 \* the current UTC date
  capCall,               \* the last call of the capacity functions and what it returned
  token_lock,            \* _token_lock: the thread that holds it, 0 when free
  thr,                   \* thread -> its call of a capacity function, step by step
  input                  \* the text a direct caller passes to send_text_to_telegram

regVars == <<user_processing_tasks, shutdown_flag, removals, regEpoch>>
orchVars == <<opc, oflag, ocancel, notices>>
aggVars == <<agg, acancel, sendLog>>
workVars == <<wpc, xfut, output_queue, pushed, emitted, builtins_print, original_print>>
cancelVars == <<cpc, cinfo>>
lockVars == <<token_lock, thr>>
capVars == <<metadata, today, capCall, lockVars>>
vars == <<regVars, hpc, orchVars, aggVars, workVars, cancelVars, capVars, input>>

\* the key is not in user_processing_tasks
Absent == [flag |-> 0, type |-> "none", executor_task |-> 0, output_task |-> 0, task |-> 0]
Present(o) == user_processing_tasks[o].flag # 0
\* del user_processing_tasks[user_id], guarded by "if user_id in"
Remove(o) ==
  /\ user_processing_tasks' = [user_processing_tasks EXCEPT ![o] = Absent]
  /\ removals' = [removals EXCEPT ![o] = IF Present(o) THEN @ + 1 ELSE @]

\* an asyncio task or future that is .done()
Final == {"done", "cancelled", "failed"}
\* the event loop is free: no output task sits in its blocking output_queue.get()
LoopFree == \A k \in Jobs : agg[k].pc # "poll"

EOS == <<Run("eos", 1)>>
IdleAgg == [pc |-> "none", buffer |-> Empty, sent_before |-> FALSE, timed |-> FALSE,
            chunks |-> <<>>, i |-> 0, attempt |-> 0, wait |-> 0, k |-> "none"]

(***************************************************************************)
(* utils.py: the daily capacity kept in metadata.json.  Every function     *)
(* runs under _token_lock, so each is one step.                            *)
(***************************************************************************)
\* the key is not in the metadata dict
Missing == -1
Fresh(day) == [daily_capacity |-> DAILY_CAPACITY, last_capacity_date |-> day]

\* get_daily_capacity: <<metadata.json afterwards, the value returned>>
get_daily_capacity(md, day) ==
  IF md.daily_capacity = Missing \/ md.last_capacity_date # day
  THEN <<Fresh(day), DAILY_CAPACITY>>
  ELSE <<md, md.daily_capacity>>

\* check_capacity_at_start and check_token_warning: capacity < WARNING_THRESHOLD
should_warn_at_threshold(md, day) == get_daily_capacity(md, day)[2] <= WARNING_THRESHOLD
should_warn(md, day) == get_daily_capacity(md, day)[2] < WARNING_THRESHOLD

\* the metadata dict of decrement_daily_capacity after its two resets
ReloadedNoReset(md, day) ==
  IF md.daily_capacity = Missing THEN Fresh(day) ELSE md
Reloaded(md, day) ==
  IF md.daily_capacity = Missing \/ md.last_capacity_date # day THEN Fresh(day) ELSE md
\* decrement_daily_capacity: <<metadata.json afterwards, the value returned>>
decrement_unguarded(md, day) ==
  LET capacity == Reloaded(md, day).daily_capacity
  IN  <<[Reloaded(md, day) EXCEPT !.daily_capacity = capacity - 1], capacity - 1 > 0>>
decrement_below_zero(md, day) ==
  LET capacity == Reloaded(md, day).daily_capacity
  IN  IF capacity < 0
      THEN <<md, FALSE>>
      ELSE <<[Reloaded(md, day) EXCEPT !.daily_capacity = capacity - 1], capacity - 1 > 0>>
decrement_daily_capacity(md, day) ==
  LET capacity == Reloaded(md, day).daily_capacity
  IN  IF capacity <= 0
      THEN <<md, FALSE>>
      ELSE <<[Reloaded(md, day) EXCEPT !.daily_capacity = capacity - 1], capacity - 1 > 0>>

(***************************************************************************)
(* routes.py: the request handlers.  A coroutine runs from one await to    *)
(* the next as one step, and only when the event loop is free.             *)
(***************************************************************************)
NewEntry(j) == [Absent EXCEPT !.flag = j, !.type = KindOf(j)]

\* "if user_id in user_processing_tasks" of the handlers, under processing_lock
NeverActive(o) == FALSE
AlreadyActive(o) == Present(o)

\* the check-and-insert under processing_lock: the entry of owner o afterwards
try_register_overwrite(o, j) == NewEntry(j)
try_register(o, j) ==
  IF AlreadyActive(o) THEN user_processing_tasks[o] ELSE NewEntry(j)

\* user_processing_tasks[user_id]["task"] = task, guarded by "if user_id in"
AttachTask(o, j) ==
  IF Present(o)
  THEN [user_processing_tasks EXCEPT ![o].task = j]
  ELSE user_processing_tasks

\* handle_text_message up to its first await: register, check the capacity
\* (capOk: metadata.json could be read), then await the acknowledgement
TextRegister(j, capOk) ==
  LET o == OwnerOf(j) IN
  /\ hpc[j] = "idle" /\ KindOf(j) \in {"youtube", "twitter"} /\ LoopFree
  /\ user_processing_tasks' = [user_processing_tasks EXCEPT ![o] = try_register(o, j)]
  /\ regEpoch' = [regEpoch EXCEPT ![j] = removals[o]]
  /\ hpc' = [hpc EXCEPT ![j] =
        IF AlreadyActive(o) THEN "rejected" ELSE IF capOk THEN "ack" ELSE "crashed"]
  /\ metadata' = IF AlreadyActive(o) \/ ~capOk THEN metadata
                 ELSE get_daily_capacity(metadata, today)[1]
  /\ UNCHANGED <<shutdown_flag, removals, orchVars, aggVars, workVars, cancelVars,
                 today, capCall, lockVars, input>>

\* handle_text_message after "await message.reply_text(processing_...)":
\* create the orchestrator task and attach it, or clean up when the reply failed
TextAck(j, ok) ==
  LET o == OwnerOf(j) IN
  /\ hpc[j] = "ack" /\ LoopFree
  /\ hpc' = [hpc EXCEPT ![j] = IF ok THEN "done" ELSE "failed"]
  /\ opc' = [opc EXCEPT ![j] = IF ok THEN "ready" ELSE @]
  /\ IF ok
     THEN user_processing_tasks' = AttachTask(o, j) /\ UNCHANGED removals
     ELSE Remove(o)
  /\ UNCHANGED <<shutdown_flag, regEpoch, oflag, ocancel, notices, aggVars, workVars,
                 cancelVars, capVars, input>>

\* handle_video_message up to the await of the "downloading" reply:
\* check_token_warning (capOk: metadata.json could be read), then register
FileRegister(j, capOk) ==
  LET o == OwnerOf(j) IN
  /\ hpc[j] = "idle" /\ KindOf(j) = "file" /\ LoopFree
  /\ user_processing_tasks' =
        IF capOk THEN [user_processing_tasks EXCEPT ![o] = try_register(o, j)]
        ELSE user_processing_tasks
  /\ regEpoch' = [regEpoch EXCEPT ![j] = IF capOk THEN removals[o] ELSE @]
  /\ hpc' = [hpc EXCEPT ![j] =
        IF ~capOk THEN "crashed" ELSE IF AlreadyActive(o) THEN "rejected" ELSE "dlmsg"]
  /\ metadata' = IF capOk THEN get_daily_capacity(metadata, today)[1] ELSE metadata
  /\ UNCHANGED <<shutdown_flag, removals, orchVars, aggVars, workVars, cancelVars,
                 today, capCall, lockVars, input>>

\* after "await message.reply_text(downloading_video)", which no try guards
FileDlMsg(j, ok) ==
  /\ hpc[j] = "dlmsg" /\ LoopFree
  /\ hpc' = [hpc EXCEPT ![j] = IF ok THEN "download" ELSE "crashed"]
  /\ UNCHANGED <<regVars, orchVars, aggVars, workVars, cancelVars, capVars, input>>

\* after "await message.download(...)": create and attach the orchestrator
\* task, or go and await the error reply
FileDownload(j, ok) ==
  LET o == OwnerOf(j) IN
  /\ hpc[j] = "download" /\ LoopFree
  /\ hpc' = [hpc EXCEPT ![j] = IF ok THEN "done" ELSE "dlerr"]
  /\ opc' = [opc EXCEPT ![j] = IF ok THEN "ready" ELSE @]
  /\ user_processing_tasks' = IF ok THEN AttachTask(o, j) ELSE user_processing_tasks
  /\ UNCHANGED <<shutdown_flag, removals, regEpoch, oflag, ocancel, notices, aggVars,
                 workVars, cancelVars, capVars, input>>

\* the except block of handle_video_message after its error reply
FileDownloadFailed(j) ==
  /\ hpc[j] = "dlerr" /\ LoopFree
  /\ hpc' = [hpc EXCEPT ![j] = "failed"]
  /\ Remove(OwnerOf(j))
  /\ UNCHANGED <<shutdown_flag, regEpoch, orchVars, aggVars, workVars, cancelVars,
                 capVars, input>>

(***************************************************************************)
(* routes.py: the orchestrator, process_youtube_video, process_twitter_    *)
(* video and process_video_file inside process_with_cleanup.               *)
(***************************************************************************)
Notice(what, ok) == [what |-> what]

\* leave the orchestrator at p; the outer finally deletes the entry when it ends
OrchGotoKeepsEntry(j, p) ==
  /\ opc' = [opc EXCEPT ![j] = p]
  /\ UNCHANGED <<user_processing_tasks, removals>>
OrchGotoRemovesEarly(j, p) ==
  /\ opc' = [opc EXCEPT ![j] = p]
  /\ Remove(OwnerOf(j))
OrchGoto(j, p) ==
  /\ opc' = [opc EXCEPT ![j] = p]
  /\ IF p \in Final THEN Remove(OwnerOf(j))
     ELSE UNCHANGED <<user_processing_tasks, removals>>

\* where the orchestrator goes once the wait for the output task is over:
\* the completion notice unless the flag is set, then reset_context()
AfterOutputAnyway(j, resetOk) == "completeSend"
AfterOutput(j, resetOk) ==
  IF ~shutdown_flag[oflag[j]] THEN "completeSend"
  ELSE IF resetOk THEN "done" ELSE "errNotice"

\* a task cancelled before its first step never runs its coroutine
OrchStartCancelled(j) ==
  /\ opc[j] = "ready" /\ ocancel[j] /\ LoopFree
  /\ opc' = [opc EXCEPT ![j] = "cancelled"]
  /\ ocancel' = [ocancel EXCEPT ![j] = FALSE]
  /\ UNCHANGED <<regVars, hpc, oflag, notices, aggVars, workVars, cancelVars, capVars, input>>

\* first step: read the shutdown flag of the owner's entry; without one await
\* the error message; else set up (setupOk: extract_video_id, ffmpeg and
\* load_config raised nothing) and await the "processing started" message
OrchStart(j, setupOk) ==
  LET f == user_processing_tasks[OwnerOf(j)].flag IN
  /\ opc[j] = "ready" /\ ~ocancel[j] /\ LoopFree
  /\ oflag' = [oflag EXCEPT ![j] = f]
  /\ opc' = [opc EXCEPT ![j] =
        IF f = 0 THEN "noflag" ELSE IF setupOk THEN "startedSend" ELSE "errNotice"]
  /\ UNCHANGED <<regVars, hpc, ocancel, notices, aggVars, workVars, cancelVars, capVars, input>>

\* after the "missing shutdown flag" message: return before the try block
OrchNoFlag(j, ok) ==
  /\ opc[j] = "noflag" /\ LoopFree
  /\ opc' = [opc EXCEPT ![j] = IF ocancel[j] THEN "cancelled" ELSE "done"]
  /\ notices' = [notices EXCEPT ![j] =
        IF ocancel[j] THEN @ ELSE Append(@, Notice("internal_error", ok))]
  /\ ocancel' = [ocancel EXCEPT ![j] = FALSE]
  /\ UNCHANGED <<regVars, hpc, oflag, aggVars, workVars, cancelVars, capVars, input>>

\* after the "processing started" message (a failure of it is swallowed):
\* create the output task, submit run_pipeline, attach both handles and
\* await executor_task; a CancelledError goes to the cancel notice
OrchLaunch(j) ==
  LET o == OwnerOf(j) IN
  /\ opc[j] = "startedSend" /\ LoopFree
  /\ opc' = [opc EXCEPT ![j] = IF ocancel[j] THEN "cancelNotice" ELSE "awaitExec"]
  /\ ocancel' = [ocancel EXCEPT ![j] = FALSE]
  /\ agg' = [agg EXCEPT ![j] = IF ocancel[j] THEN @ ELSE [IdleAgg EXCEPT !.pc = "ready"]]
  /\ wpc' = [wpc EXCEPT ![j] = IF ocancel[j] THEN @ ELSE "queued"]
  /\ xfut' = [xfut EXCEPT ![j] = IF ocancel[j] THEN @ ELSE "pending"]
  /\ original_print' = [original_print EXCEPT ![j] = IF ocancel[j] THEN @ ELSE builtins_print]
  /\ user_processing_tasks' =
        IF ~ocancel[j] /\ Present(o)
        THEN [user_processing_tasks EXCEPT ![o].executor_task = j, ![o].output_task = j]
        ELSE user_processing_tasks
  /\ UNCHANGED <<shutdown_flag, removals, regEpoch, hpc, oflag, notices, acancel, sendLog,
                 output_queue, pushed, emitted, builtins_print, cancelVars, capVars, input>>

\* "await wait_for(output_task, 30.0)" of the inner finally: over at once when
\* the output task is done, else the orchestrator waits
WaitOutputSkipped(j, resetOk) == AfterOutput(j, resetOk)
WaitOutput(j, resetOk) ==
  IF agg[j].pc \in Final THEN AfterOutput(j, resetOk) ELSE "awaitOut1"

\* "await executor_task" is over: the worker ended, or the future or the
\* orchestrator was cancelled (the except branch finds the future done)
OrchExecDone(j, resetOk) ==
  /\ opc[j] = "awaitExec" /\ xfut[j] \in Final /\ LoopFree
  /\ OrchGoto(j, WaitOutput(j, resetOk))
  /\ ocancel' = [ocancel EXCEPT ![j] = FALSE]
  /\ UNCHANGED <<shutdown_flag, regEpoch, hpc, oflag, notices, aggVars, workVars,
                 cancelVars, capVars, input>>

\* the wait for the output task left with the task still running
OrchOutDoneUnawaited(j, resetOk) ==
  /\ opc[j] \in {"awaitOut1", "awaitOut2"} /\ LoopFree
  /\ OrchGoto(j, AfterOutput(j, resetOk))
  /\ ocancel' = [ocancel EXCEPT ![j] = FALSE]
  /\ UNCHANGED <<shutdown_flag, regEpoch, hpc, oflag, notices, aggVars, workVars,
                 cancelVars, capVars, input>>

\* the wait for the output task ends because the task is done (finished, or
\* cancelled by a cancel request, by the time-out or with the orchestrator)
OrchOutDone(j, resetOk) ==
  /\ opc[j] \in {"awaitOut1", "awaitOut2"} /\ agg[j].pc \in Final /\ LoopFree
  /\ OrchGoto(j, AfterOutput(j, resetOk))
  /\ ocancel' = [ocancel EXCEPT ![j] = FALSE]
  /\ UNCHANGED <<shutdown_flag, regEpoch, hpc, oflag, notices, aggVars, workVars,
                 cancelVars, capVars, input>>

\* the 30 s run out: output_task.cancel(), then wait for it again
OrchOutTimeout(j) ==
  /\ opc[j] = "awaitOut1" /\ agg[j].pc \notin Final /\ LoopFree
  /\ opc' = [opc EXCEPT ![j] = "awaitOut2"]
  /\ acancel' = [acancel EXCEPT ![j] = TRUE]
  /\ UNCHANGED <<regVars, hpc, oflag, ocancel, notices, agg, sendLog, workVars,
                 cancelVars, capVars, input>>

\* after the completion notice: reset_context() and the outer finally
OrchComplete(j, ok, resetOk) ==
  /\ opc[j] = "completeSend" /\ LoopFree
  /\ OrchGoto(j, IF ocancel[j] THEN "cancelNotice" ELSE IF resetOk THEN "done" ELSE "errNotice")
  /\ notices' = [notices EXCEPT ![j] =
        IF ocancel[j] THEN @ ELSE Append(@, Notice("complete", ok))]
  /\ ocancel' = [ocancel EXCEPT ![j] = FALSE]
  /\ UNCHANGED <<shutdown_flag, regEpoch, hpc, oflag, aggVars, workVars, cancelVars,
                 capVars, input>>

\* "except asyncio.CancelledError" of the outer try, after its cancel notice
OrchCancelNotice(j, ok, resetOk) ==
  /\ opc[j] = "cancelNotice" /\ LoopFree
  /\ OrchGoto(j, IF ocancel[j] THEN "cancelled" ELSE IF resetOk THEN "done" ELSE "failed")
  /\ notices' = [notices EXCEPT ![j] =
        IF ocancel[j] THEN @ ELSE Append(@, Notice("cancel", ok))]
  /\ ocancel' = [ocancel EXCEPT ![j] = FALSE]
  /\ UNCHANGED <<shutdown_flag, regEpoch, hpc, oflag, aggVars, workVars, cancelVars,
                 capVars, input>>

\* "except Exception" of the outer try, after its error notice
OrchErrNotice(j, ok, resetOk) ==
  /\ opc[j] = "errNotice" /\ LoopFree
  /\ OrchGoto(j, IF ocancel[j] THEN "cancelled" ELSE IF resetOk THEN "done" ELSE "failed")
  /\ notices' = [notices EXCEPT ![j] =
        IF ocancel[j] THEN @ ELSE Append(@, Notice("error", ok))]
  /\ ocancel' = [ocancel EXCEPT ![j] = FALSE]
  /\ UNCHANGED <<shutdown_flag, regEpoch, hpc, oflag, aggVars, workVars, cancelVars,
                 capVars, input>>

(***************************************************************************)
(* output_handler.py: send_text_to_telegram, as run inside a coroutine.    *)
(* k says what the caller does when it returns: "loop" and "break" are the *)
(* two call sites of send_output_task, "return" is a direct caller.        *)
(***************************************************************************)
\* send_text_to_telegram returned to its caller
ReturnedKeepsBuffer(a) ==
  IF a.k = "loop"
  THEN [a EXCEPT !.pc = "poll", !.sent_before = TRUE,
                 !.chunks = <<>>, !.i = 0, !.attempt = 0, !.k = "none"]
  ELSE [a EXCEPT !.pc = "done", !.chunks = <<>>, !.i = 0, !.attempt = 0, !.k = "none"]
Returned(a) ==
  IF a.k = "loop"
  THEN [a EXCEPT !.pc = "poll", !.buffer = Empty, !.sent_before = TRUE,
                 !.chunks = <<>>, !.i = 0, !.attempt = 0, !.k = "none"]
  ELSE [a EXCEPT !.pc = "done", !.chunks = <<>>, !.i = 0, !.attempt = 0, !.k = "none"]

\* the call: return at once for a blank text or when no chunk is to be sent,
\* else split and await the first send
Deliver(a, text, k) ==
  LET cs == SplitChunks(text)
      first == NextSendable(cs, 1)
  IN  IF IsBlank(text) \/ first = 0
      THEN Returned([a EXCEPT !.k = k])
      ELSE [a EXCEPT !.pc = "send", !.chunks = cs, !.i = first, !.attempt = 0, !.k = k]

\* "break" of the retry loop, or its last failed attempt: on to the next chunk
Advance(a) ==
  LET next == NextSendable(a.chunks, a.i + 1)
  IN  IF next = 0 THEN Returned(a) ELSE [a EXCEPT !.i = next, !.attempt = 0]

Attempt(a, ok) == [t |-> a.chunks[a.i], n |-> a.attempt, ok |-> ok]

\* client.send_message returned within the 30 s (log: keep the history)
SendOk(j, log) ==
  /\ agg[j].pc = "send" /\ ~acancel[j] /\ LoopFree
  /\ sendLog' = [sendLog EXCEPT ![j] = IF log THEN Append(@, Attempt(agg[j], TRUE)) ELSE @]
  /\ agg' = [agg EXCEPT ![j] = Advance(@)]
  /\ UNCHANGED <<regVars, hpc, orchVars, acancel, workVars, cancelVars, capVars, input>>

\* the failure of the last attempt raised to the caller
SendFailAborts(j, log) ==
  /\ agg[j].pc = "send" /\ ~acancel[j] /\ LoopFree
  /\ sendLog' = [sendLog EXCEPT ![j] = IF log THEN Append(@, Attempt(agg[j], FALSE)) ELSE @]
  /\ agg' = [agg EXCEPT ![j] =
        IF @.attempt < max_retries - 1 THEN [@ EXCEPT !.pc = "backoff"] ELSE Returned(@)]
  /\ UNCHANGED <<regVars, hpc, orchVars, acancel, workVars, cancelVars, capVars, input>>

\* wait_time = 0.5 * (2 ** attempt), in milliseconds
wait_time_fixed(attempt) == 500
wait_time(attempt) == 500 * 2 ^ attempt

\* client.send_message raised or timed out: back off, or give the chunk up
SendFail(j, log) ==
  /\ agg[j].pc = "send" /\ ~acancel[j] /\ LoopFree
  /\ sendLog' = [sendLog EXCEPT ![j] = IF log THEN Append(@, Attempt(agg[j], FALSE)) ELSE @]
  /\ agg' = [agg EXCEPT ![j] =
        IF @.attempt < max_retries - 1
        THEN [@ EXCEPT !.pc = "backoff", !.wait = wait_time(agg[j].attempt)]
        ELSE Advance(@)]
  /\ UNCHANGED <<regVars, hpc, orchVars, acancel, workVars, cancelVars, capVars, input>>

\* asyncio.sleep(0.5 * 2 ** attempt) is over: the next attempt
BackoffDone(j) ==
  /\ agg[j].pc = "backoff" /\ ~acancel[j] /\ LoopFree
  /\ agg' = [agg EXCEPT ![j] = [@ EXCEPT !.pc = "send", !.attempt = @ + 1, !.wait = 0]]
  /\ UNCHANGED <<regVars, hpc, orchVars, acancel, sendLog, workVars, cancelVars, capVars, input>>

\* a direct call send_text_to_telegram(client, chat_id, input)
Call(j) ==
  /\ agg[j].pc = "caller" /\ LoopFree
  /\ agg' = [agg EXCEPT ![j] = Deliver(@, input, "return")]
  /\ UNCHANGED <<regVars, hpc, orchVars, acancel, sendLog, workVars, cancelVars, capVars, input>>

(***************************************************************************)
(* routes.py: send_output_task, the consumer of output_queue.  Its         *)
(* output_queue.get(timeout=1.0) blocks the thread of the event loop: in   *)
(* "poll" no other coroutine runs, only the worker threads.                *)
(***************************************************************************)
\* '[' in text and ']' in text
is_transcription_never(text) == FALSE
is_transcription(text) == Contains(text, "lb") /\ Contains(text, "rb")

\* the output task is cancelled before its first step, or at the await of a
\* send or of a back-off (no "except Exception" catches CancelledError)
AggCancelled(j) ==
  /\ agg[j].pc \in {"ready", "send", "backoff"} /\ acancel[j] /\ LoopFree
  /\ agg' = [agg EXCEPT ![j] = [@ EXCEPT !.pc = "cancelled"]]
  /\ acancel' = [acancel EXCEPT ![j] = FALSE]
  /\ UNCHANGED <<regVars, hpc, orchVars, sendLog, workVars, cancelVars, capVars, input>>

\* first step of the output task: into the loop and its blocking get
AggStart(j) ==
  /\ agg[j].pc = "ready" /\ ~acancel[j] /\ LoopFree
  /\ agg' = [agg EXCEPT ![j] = [@ EXCEPT !.pc = "poll"]]
  /\ UNCHANGED <<regVars, hpc, orchVars, acancel, sendLog, workVars, cancelVars, capVars, input>>

\* current_time - last_send_time >= send_interval: last_send_time is 0 until
\* the loop has sent, and then 2 s have passed or not (elapsed)
interval_over(elapsed, sent_before) == elapsed \/ ~sent_before

\* should_send, with the interval left out and with it
should_send_untimed(text, buf, over) == is_transcription(text) \/ ~IsBlank(buf)
should_send(text, buf, over) == is_transcription(text) \/ (over /\ ~IsBlank(buf))

\* get() returned a text: append it, decide should_send (elapsed: 2 s have
\* passed since last_send_time), flush or go on polling; timed keeps what the
\* comparison of the times gave when it was evaluated
AggFragment(j, elapsed) ==
  /\ agg[j].pc = "poll" /\ output_queue[j] # <<>> /\ Head(output_queue[j]) # EOS
  /\ LET text == Head(output_queue[j])
         buf == Cat(agg[j].buffer, text)
         over == interval_over(elapsed, agg[j].sent_before)
         now == [agg[j] EXCEPT !.buffer = buf, !.timed = ~is_transcription(text) /\ over]
     IN  agg' = [agg EXCEPT ![j] =
            IF should_send(text, buf, over) /\ ~IsBlank(buf)
            THEN Deliver(now, buf, "loop")
            ELSE now]
  /\ output_queue' = [output_queue EXCEPT ![j] = Tail(@)]
  /\ UNCHANGED <<regVars, hpc, orchVars, acancel, sendLog, wpc, xfut, pushed, emitted,
                 builtins_print, original_print, cancelVars, capVars, input>>

\* get() returned None: flush what is buffered and break
AggEndIgnoresMarker(j) ==
  /\ agg[j].pc = "poll" /\ output_queue[j] # <<>> /\ Head(output_queue[j]) = EOS
  /\ output_queue' = [output_queue EXCEPT ![j] = Tail(@)]
  /\ UNCHANGED <<regVars, hpc, orchVars, aggVars, wpc, xfut, pushed, emitted,
                 builtins_print, original_print, cancelVars, capVars, input>>
AggEnd(j) ==
  /\ agg[j].pc = "poll" /\ output_queue[j] # <<>> /\ Head(output_queue[j]) = EOS
  /\ output_queue' = [output_queue EXCEPT ![j] = Tail(@)]
  /\ agg' = [agg EXCEPT ![j] =
        IF ~IsBlank(@.buffer) THEN Deliver(@, @.buffer, "break") ELSE [@ EXCEPT !.pc = "done"]]
  /\ UNCHANGED <<regVars, hpc, orchVars, acancel, sendLog, wpc, xfut, pushed, emitted,
                 builtins_print, original_print, cancelVars, capVars, input>>

\* the time-out that breaks without the flush
AggTimeoutDropsBuffer(j) ==
  /\ agg[j].pc = "poll" /\ output_queue[j] = <<>>
  /\ agg' = [agg EXCEPT ![j] =
        IF ~shutdown_flag[oflag[j]] THEN @ ELSE [@ EXCEPT !.pc = "done"]]
  /\ UNCHANGED <<regVars, hpc, orchVars, acancel, sendLog, workVars, cancelVars, capVars, input>>

\* get() timed out on an empty queue: flush and break when the shutdown flag
\* is set, else go round the loop and block in get() again
AggTimeout(j) ==
  /\ agg[j].pc = "poll" /\ output_queue[j] = <<>>
  /\ agg' = [agg EXCEPT ![j] =
        IF ~shutdown_flag[oflag[j]] THEN @
        ELSE IF ~IsBlank(@.buffer) THEN Deliver(@, @.buffer, "break")
        ELSE [@ EXCEPT !.pc = "done"]]
  /\ UNCHANGED <<regVars, hpc, orchVars, acancel, sendLog, workVars, cancelVars, capVars, input>>

(***************************************************************************)
(* routes.py: run_pipeline, the worker in a thread of the default executor.*)
(***************************************************************************)
\* "\n[ERROR] {e}\n"
ErrorText == <<Run("nl", 1), Run("lb", 1), Run("a", 1), Run("rb", 1), Run("sp", 1),
               Run("a", 1), Run("nl", 1)>>

Put(q, k, items) == IF k = 0 THEN q ELSE [q EXCEPT ![k] = @ \o items]

\* the thread starts: builtins.print = capture_print
WorkerBegin(j) ==
  /\ wpc[j] = "queued"
  /\ wpc' = [wpc EXCEPT ![j] = "run"]
  /\ builtins_print' = j
  /\ UNCHANGED <<regVars, hpc, orchVars, aggVars, xfut, output_queue, pushed, emitted,
                 original_print, cancelVars, capVars, input>>

\* the pipeline calls print(frag): whatever builtins.print is now gets it
WorkerPrint(j, frag, limit, log) ==
  /\ wpc[j] = "run" /\ emitted[j] < limit
  /\ emitted' = [emitted EXCEPT ![j] = @ + 1]
  /\ output_queue' = Put(output_queue, builtins_print, <<frag>>)
  /\ pushed' = IF log THEN Put(pushed, builtins_print, <<frag>>) ELSE pushed
  /\ UNCHANGED <<regVars, hpc, orchVars, aggVars, wpc, xfut, builtins_print,
                 original_print, cancelVars, capVars, input>>

\* the pipeline returns or raises: queue the error text if it raised, restore
\* print, queue None; the future of run_in_executor completes
\* the finally block without its put_nowait(None)
WorkerEndNoMarker(j, raised, log) ==
  LET items == IF raised THEN <<ErrorText>> ELSE <<>> IN
  /\ wpc[j] = "run"
  /\ wpc' = [wpc EXCEPT ![j] = "done"]
  /\ builtins_print' = original_print[j]
  /\ output_queue' = Put(output_queue, j, items)
  /\ pushed' = IF log THEN Put(pushed, j, items) ELSE pushed
  /\ xfut' = [xfut EXCEPT ![j] = IF @ = "pending" THEN "done" ELSE @]
  /\ UNCHANGED <<regVars, hpc, orchVars, aggVars, emitted, original_print, cancelVars,
                 capVars, input>>

WorkerEnd(j, raised, log) ==
  LET items == (IF raised THEN <<ErrorText>> ELSE <<>>) \o <<EOS>> IN
  /\ wpc[j] = "run"
  /\ wpc' = [wpc EXCEPT ![j] = "done"]
  /\ builtins_print' = original_print[j]
  /\ output_queue' = Put(output_queue, j, items)
  /\ pushed' = IF log THEN Put(pushed, j, items) ELSE pushed
  /\ xfut' = [xfut EXCEPT ![j] = IF @ = "pending" THEN "done" ELSE @]
  /\ UNCHANGED <<regVars, hpc, orchVars, aggVars, emitted, original_print, cancelVars,
                 capVars, input>>

(***************************************************************************)
(* routes.py: cancel_user_processing.                                      *)
(***************************************************************************)
\* the cascade without its wait for the output task
StageSkipsOutput(info, from) ==
  IF from <= 2 /\ info.executor_task # 0 /\ xfut[info.executor_task] \notin Final
  THEN "waitExec"
  ELSE IF info.task # 0 /\ opc[info.task] \notin Final
  THEN "waitTask"
  ELSE "done"
\* the first await the cascade reaches from step `from` on (1: the output
\* task, 2: the executor future, 3: the orchestrator task), "done" if none
Stage(info, from) ==
  IF from <= 1 /\ info.output_task # 0 /\ agg[info.output_task].pc \notin Final
  THEN "waitOut"
  ELSE IF from <= 2 /\ info.executor_task # 0 /\ xfut[info.executor_task] \notin Final
  THEN "waitExec"
  ELSE IF info.task # 0 /\ opc[info.task] \notin Final
  THEN "waitTask"
  ELSE "done"

\* Task.cancel() of orchestrator t also cancels the future it is waiting on
CancelsFuture(t, xf) == opc[t] = "awaitExec" /\ xf[t] = "pending"
CancelsOutput(t) == opc[t] \in {"awaitOut1", "awaitOut2"} /\ agg[t].pc \notin Final

\* the cascade of request c goes to `stage`: cancel what that step cancels and
\* await it, or delete the entry at the end (xf: the executor futures now)
CancelEnter(c, info, stage, xf) ==
  /\ cpc' = [cpc EXCEPT ![c] = stage]
  /\ acancel' =
        IF stage = "waitOut" THEN [acancel EXCEPT ![info.output_task] = TRUE]
        ELSE IF stage = "waitTask" /\ CancelsOutput(info.task)
        THEN [acancel EXCEPT ![info.task] = TRUE]
        ELSE acancel
  /\ ocancel' = IF stage = "waitTask" THEN [ocancel EXCEPT ![info.task] = TRUE] ELSE ocancel
  /\ xfut' = IF stage = "waitTask" /\ CancelsFuture(info.task, xf)
             THEN [xf EXCEPT ![info.task] = "cancelled"]
             ELSE xf
  /\ IF stage = "done" THEN Remove(CancelOwner(c))
     ELSE UNCHANGED <<user_processing_tasks, removals>>

\* a cancel request that flips the flag of the entry instead of setting it
CancelBeginToggles(c) ==
  LET o == CancelOwner(c)
      info == user_processing_tasks[o]
  IN  /\ cpc[c] = "idle" /\ LoopFree
      /\ IF Present(o)
         THEN /\ cinfo' = [cinfo EXCEPT ![c] = info]
              /\ shutdown_flag' = [shutdown_flag EXCEPT ![info.flag] = ~@]
              /\ CancelEnter(c, info, Stage(info, 1), xfut)
         ELSE /\ cpc' = [cpc EXCEPT ![c] = "done"]
              /\ UNCHANGED <<user_processing_tasks, removals, shutdown_flag, cinfo,
                             acancel, ocancel, xfut>>
      /\ UNCHANGED <<regEpoch, hpc, opc, oflag, notices, agg, sendLog, wpc, output_queue,
                     pushed, emitted, builtins_print, original_print, capVars, input>>

\* a cancel request that cancels the orchestrators it finds running although
\* the owner has no entry
CancelBeginSweeps(c) ==
  LET o == CancelOwner(c)
      info == user_processing_tasks[o]
  IN  /\ cpc[c] = "idle" /\ LoopFree
      /\ IF Present(o)
         THEN /\ cinfo' = [cinfo EXCEPT ![c] = info]
              /\ shutdown_flag' = [shutdown_flag EXCEPT ![info.flag] = TRUE]
              /\ CancelEnter(c, info, Stage(info, 1), xfut)
         ELSE /\ cpc' = [cpc EXCEPT ![c] = "done"]
              /\ ocancel' = [j \in Jobs |-> ocancel[j] \/ opc[j] = "awaitExec"]
              /\ UNCHANGED <<user_processing_tasks, removals, shutdown_flag, cinfo,
                             acancel, xfut>>
      /\ UNCHANGED <<regEpoch, hpc, opc, oflag, notices, agg, sendLog, wpc, output_queue,
                     pushed, emitted, builtins_print, original_print, capVars, input>>

\* up to the first await: copy the entry, set its flag, start the cascade;
\* return at once when the owner has no entry
CancelBegin(c) ==
  LET o == CancelOwner(c)
      info == user_processing_tasks[o]
  IN  /\ cpc[c] = "idle" /\ LoopFree
      /\ IF Present(o)
         THEN /\ cinfo' = [cinfo EXCEPT ![c] = info]
              /\ shutdown_flag' = [shutdown_flag EXCEPT ![info.flag] = TRUE]
              /\ CancelEnter(c, info, Stage(info, 1), xfut)
         ELSE /\ cpc' = [cpc EXCEPT ![c] = "done"]
              /\ UNCHANGED <<user_processing_tasks, removals, shutdown_flag, cinfo,
                             acancel, ocancel, xfut>>
      /\ UNCHANGED <<regEpoch, hpc, opc, oflag, notices, agg, sendLog, wpc, output_queue,
                     pushed, emitted, builtins_print, original_print, capVars, input>>

\* wait_for(output_task, 3.0) is over: the output task is done
CancelOutDone(c) ==
  /\ cpc[c] = "waitOut" /\ agg[cinfo[c].output_task].pc \in Final /\ LoopFree
  /\ CancelEnter(c, cinfo[c], Stage(cinfo[c], 2), xfut)
  /\ UNCHANGED <<shutdown_flag, regEpoch, hpc, opc, oflag, notices, agg, sendLog, wpc,
                 output_queue, pushed, emitted, builtins_print, original_print, cinfo,
                 capVars, input>>

\* wait_for(executor_task, 10.0) is over: the worker ended, or the future was
\* cancelled meanwhile and the CancelledError leaves cancel_user_processing
CancelExecDone(c) ==
  /\ cpc[c] = "waitExec" /\ xfut[cinfo[c].executor_task] \in Final /\ LoopFree
  /\ IF xfut[cinfo[c].executor_task] = "cancelled"
     THEN /\ cpc' = [cpc EXCEPT ![c] = "aborted"]
          /\ UNCHANGED <<user_processing_tasks, removals, acancel, ocancel, xfut>>
     ELSE CancelEnter(c, cinfo[c], Stage(cinfo[c], 3), xfut)
  /\ UNCHANGED <<shutdown_flag, regEpoch, hpc, opc, oflag, notices, agg, sendLog, wpc,
                 output_queue, pushed, emitted, builtins_print, original_print, cinfo,
                 capVars, input>>

\* the 10 s run out: wait_for cancels the future, the cascade continues anyway
CancelExecTimeout(c) ==
  /\ cpc[c] = "waitExec" /\ xfut[cinfo[c].executor_task] = "pending" /\ LoopFree
  /\ CancelEnter(c, cinfo[c], Stage(cinfo[c], 3),
                 [xfut EXCEPT ![cinfo[c].executor_task] = "cancelled"])
  /\ UNCHANGED <<shutdown_flag, regEpoch, hpc, opc, oflag, notices, agg, sendLog, wpc,
                 output_queue, pushed, emitted, builtins_print, original_print, cinfo,
                 capVars, input>>

\* wait_for(task, 5.0) is over: delete the entry, unless the task ended with
\* an exception, which leaves cancel_user_processing
CancelTaskDone(c) ==
  /\ cpc[c] = "waitTask" /\ opc[cinfo[c].task] \in Final /\ LoopFree
  /\ IF opc[cinfo[c].task] = "failed"
     THEN /\ cpc' = [cpc EXCEPT ![c] = "raised"]
          /\ UNCHANGED <<user_processing_tasks, removals, acancel, ocancel, xfut>>
     ELSE CancelEnter(c, cinfo[c], "done", xfut)
  /\ UNCHANGED <<shutdown_flag, regEpoch, hpc, opc, oflag, notices, agg, sendLog, wpc,
                 output_queue, pushed, emitted, builtins_print, original_print, cinfo,
                 capVars, input>>

\* the 5 s run out: wait_for cancels the orchestrator once more and waits on
CancelTaskTimeout(c) ==
  /\ cpc[c] = "waitTask" /\ opc[cinfo[c].task] \notin Final /\ ~ocancel[cinfo[c].task]
  /\ LoopFree
  /\ CancelEnter(c, cinfo[c], "waitTask", xfut)
  /\ UNCHANGED <<shutdown_flag, regEpoch, hpc, opc, oflag, notices, agg, sendLog, wpc,
                 output_queue, pushed, emitted, builtins_print, original_print, cinfo,
                 capVars, input>>

\* cancel_command after cancel_user_processing has returned: reset_context()
\* and the reply "cancel_success"; the replies that answer the cancel of job j
CancelReplies(j) == {c \in Cancels : cpc[c] = "done" /\ cinfo[c].flag = j}

(***************************************************************************)
(* The lifecycle specification: start requests, cancel requests, workers.  *)
(***************************************************************************)
\* threads that call the capacity functions at the same time
Threads == 1..NumThreads
IdleThread == [pc |-> "idle", op |-> "none", md |-> Fresh(0), day |-> 0,
               value |-> 0, result |-> FALSE, raised |-> FALSE]

NoCall == [op |-> "none", pre |-> Fresh(0), day |-> 0, value |-> 0, result |-> FALSE]

Idle ==
  /\ user_processing_tasks = [o \in Owners |-> Absent]
  /\ shutdown_flag = [j \in Jobs |-> FALSE]
  /\ removals = [o \in Owners |-> 0]
  /\ regEpoch = [j \in Jobs |-> -1]
  /\ hpc = [j \in Jobs |-> "idle"]
  /\ opc = [j \in Jobs |-> "none"]
  /\ oflag = [j \in Jobs |-> 0]
  /\ ocancel = [j \in Jobs |-> FALSE]
  /\ notices = [j \in Jobs |-> <<>>]
  /\ acancel = [j \in Jobs |-> FALSE]
  /\ sendLog = [j \in Jobs |-> <<>>]
  /\ wpc = [j \in Jobs |-> "none"]
  /\ xfut = [j \in Jobs |-> "none"]
  /\ output_queue = [j \in Jobs |-> <<>>]
  /\ pushed = [j \in Jobs |-> <<>>]
  /\ emitted = [j \in Jobs |-> 0]
  /\ builtins_print = 0
  /\ original_print = [j \in Jobs |-> 0]
  /\ cpc = [c \in Requests |-> "idle"]
  /\ cinfo = [c \in Requests |-> Absent]
  /\ token_lock = 0
  /\ thr = [t \in Threads |-> IdleThread]

\* "[a]\n": a timed transcript line as print() queues it
TranscriptLine == <<Run("lb", 1), Run("a", 1), Run("rb", 1), Run("nl", 1)>>
LifeFrags == {TranscriptLine}

Init ==
  /\ Idle /\ capCall = NoCall
  /\ agg = [j \in Jobs |-> IdleAgg]
  /\ metadata = Fresh(0) /\ today = 0
  /\ input = Empty

Next ==
  \/ \E j \in OwnJobs, capOk \in BOOLEAN : TextRegister(j, capOk)
  \/ \E j \in OwnJobs, ok \in BOOLEAN : TextAck(j, ok)
  \/ \E j \in OwnJobs, capOk \in BOOLEAN : FileRegister(j, capOk)
  \/ \E j \in OwnJobs, ok \in BOOLEAN : FileDlMsg(j, ok)
  \/ \E j \in OwnJobs, ok \in BOOLEAN : FileDownload(j, ok)
  \/ \E j \in OwnJobs : FileDownloadFailed(j)
  \/ \E j \in OwnJobs : OrchStartCancelled(j)
  \/ \E j \in OwnJobs, setupOk \in BOOLEAN : OrchStart(j, setupOk)
  \/ \E j \in OwnJobs, ok \in BOOLEAN : OrchNoFlag(j, ok)
  \/ \E j \in OwnJobs : OrchLaunch(j)
  \/ \E j \in OwnJobs, resetOk \in BOOLEAN : OrchExecDone(j, resetOk)
  \/ \E j \in OwnJobs, resetOk \in BOOLEAN : OrchOutDone(j, resetOk)
  \/ \E j \in OwnJobs : OrchOutTimeout(j)
  \/ \E j \in OwnJobs, ok \in BOOLEAN, resetOk \in BOOLEAN : OrchComplete(j, ok, resetOk)
  \/ \E j \in OwnJobs, ok \in BOOLEAN, resetOk \in BOOLEAN : OrchCancelNotice(j, ok, resetOk)
  \/ \E j \in OwnJobs, ok \in BOOLEAN, resetOk \in BOOLEAN : OrchErrNotice(j, ok, resetOk)
  \/ \E j \in OwnJobs : AggCancelled(j)
  \/ \E j \in OwnJobs : AggStart(j)
  \/ \E j \in OwnJobs, elapsed \in BOOLEAN : AggFragment(j, elapsed)
  \/ \E j \in OwnJobs : AggEnd(j)
  \/ \E j \in OwnJobs : AggTimeout(j)
  \/ \E j \in OwnJobs : SendOk(j, FALSE)
  \/ \E j \in OwnJobs : WorkerBegin(j)
  \/ \E j \in OwnJobs, frag \in LifeFrags : WorkerPrint(j, frag, MaxEmit, FALSE)
  \/ \E j \in OwnJobs, raised \in BOOLEAN : WorkerEnd(j, raised, FALSE)
  \/ \E c \in LifeCancels : CancelBegin(c)
  \/ \E c \in LifeCancels : CancelOutDone(c)
  \/ \E c \in LifeCancels : CancelExecDone(c)
  \/ \E c \in LifeCancels : CancelExecTimeout(c)
  \/ \E c \in LifeCancels : CancelTaskDone(c)
  \/ \E c \in LifeCancels : CancelTaskTimeout(c)

Spec == Init /\ [][Next]_vars

(***************************************************************************)
(* The fair lifecycle specification: the start request of job 1 alone with *)
(* the cancel requests, sends that fail and are retried included, under    *)
(* the fairness of a running process: the event loop resumes a coroutine   *)
(* that can run, a submitted worker runs and returns, an awaited call      *)
(* returns or times out.                                                   *)
(***************************************************************************)
LiveJobs == {1}

NextLive ==
  \/ \E j \in LiveJobs, capOk \in BOOLEAN : TextRegister(j, capOk)
  \/ \E j \in LiveJobs, ok \in BOOLEAN : TextAck(j, ok)
  \/ \E j \in LiveJobs : OrchStartCancelled(j)
  \/ \E j \in LiveJobs, setupOk \in BOOLEAN : OrchStart(j, setupOk)
  \/ \E j \in LiveJobs, ok \in BOOLEAN : OrchNoFlag(j, ok)
  \/ \E j \in LiveJobs : OrchLaunch(j)
  \/ \E j \in LiveJobs, resetOk \in BOOLEAN : OrchExecDone(j, resetOk)
  \/ \E j \in LiveJobs, resetOk \in BOOLEAN : OrchOutDone(j, resetOk)
  \/ \E j \in LiveJobs : OrchOutTimeout(j)
  \/ \E j \in LiveJobs, ok \in BOOLEAN, resetOk \in BOOLEAN : OrchComplete(j, ok, resetOk)
  \/ \E j \in LiveJobs, ok \in BOOLEAN, resetOk \in BOOLEAN : OrchCancelNotice(j, ok, resetOk)
  \/ \E j \in LiveJobs, ok \in BOOLEAN, resetOk \in BOOLEAN : OrchErrNotice(j, ok, resetOk)
  \/ \E j \in LiveJobs : AggCancelled(j)
  \/ \E j \in LiveJobs : AggStart(j)
  \/ \E j \in LiveJobs, elapsed \in BOOLEAN : AggFragment(j, elapsed)
  \/ \E j \in LiveJobs : AggEnd(j)
  \/ \E j \in LiveJobs : AggTimeout(j)
  \/ \E j \in LiveJobs : SendOk(j, FALSE)
  \/ \E j \in LiveJobs : SendFail(j, FALSE)
  \/ \E j \in LiveJobs : BackoffDone(j)
  \/ \E j \in LiveJobs : WorkerBegin(j)
  \/ \E j \in LiveJobs, frag \in LifeFrags : WorkerPrint(j, frag, MaxEmit, FALSE)
  \/ \E j \in LiveJobs, raised \in BOOLEAN : WorkerEnd(j, raised, FALSE)
  \/ \E c \in LifeCancels : CancelBegin(c)
  \/ \E c \in LifeCancels : CancelOutDone(c)
  \/ \E c \in LifeCancels : CancelExecDone(c)
  \/ \E c \in LifeCancels : CancelExecTimeout(c)
  \/ \E c \in LifeCancels : CancelTaskDone(c)
  \/ \E c \in LifeCancels : CancelTaskTimeout(c)

SpecLive == Init /\ [][NextLive]_vars /\ WF_vars(NextLive)

(***************************************************************************)
(* The chunking specification: direct calls of send_text_to_telegram with  *)
(* texts of up to MaxRuns runs, sends that succeed, fail and are retried.  *)
(***************************************************************************)
\* run lengths around the limit: with them a text reaches a length of
\* max_length exactly and a line break sits at, before and after 0.7 * max_length
RunLens == {1, (max_length * 7) \div 10, (max_length * 7) \div 10 + 1,
            max_length - ((max_length * 7) \div 10 + 1)}
Chars == {"a", "nl", "sp"}
Inputs == {Norm(rs) : rs \in UNION {[1..n -> [c : Chars, n : RunLens]] : n \in 0..MaxRuns}}

InitChunk ==
  /\ Idle /\ capCall = NoCall
  /\ agg = [j \in Jobs |-> IF j = 1 THEN [IdleAgg EXCEPT !.pc = "caller"] ELSE IdleAgg]
  /\ metadata = Fresh(0) /\ today = 0
  /\ input \in Inputs

NextChunk ==
  \/ \E j \in OwnJobs : Call(j)
  \/ \E j \in OwnJobs : SendOk(j, TRUE)
  \/ \E j \in OwnJobs : SendFail(j, TRUE)
  \/ \E j \in OwnJobs : BackoffDone(j)

SpecChunk == InitChunk /\ [][NextChunk]_vars

(***************************************************************************)
(* The capacity specification: calls of the capacity functions of utils.py *)
(* on a metadata.json of any content, while up to MaxDay days pass.        *)
(***************************************************************************)
CapValues == {Missing, 0, 1, 2, WARNING_THRESHOLD - 1, WARNING_THRESHOLD, DAILY_CAPACITY}

\* one call of decrement_daily_capacity()
Decrement ==
  LET r == decrement_daily_capacity(metadata, today) IN
  /\ metadata' = r[1]
  /\ capCall' = [op |-> "decrement", pre |-> metadata, day |-> today,
                 value |-> r[1].daily_capacity, result |-> r[2]]
  /\ UNCHANGED <<regVars, hpc, orchVars, aggVars, workVars, cancelVars, today, lockVars, input>>

\* one call of get_daily_capacity()
GetCapacity ==
  LET r == get_daily_capacity(metadata, today) IN
  /\ metadata' = r[1]
  /\ capCall' = [op |-> "get", pre |-> metadata, day |-> today,
                 value |-> r[2], result |-> TRUE]
  /\ UNCHANGED <<regVars, hpc, orchVars, aggVars, workVars, cancelVars, today, lockVars, input>>

\* one call of check_token_warning() or check_capacity_at_start()
CheckWarning ==
  /\ metadata' = get_daily_capacity(metadata, today)[1]
  /\ capCall' = [op |-> "warn", pre |-> metadata, day |-> today,
                 value |-> get_daily_capacity(metadata, today)[2],
                 result |-> should_warn(metadata, today)]
  /\ UNCHANGED <<regVars, hpc, orchVars, aggVars, workVars, cancelVars, today, lockVars, input>>

\* midnight UTC passes
NextDay ==
  /\ today < MaxDay
  /\ today' = today + 1
  /\ UNCHANGED <<regVars, hpc, orchVars, aggVars, workVars, cancelVars, metadata, capCall, lockVars, input>>

InitCap ==
  /\ Idle /\ capCall = NoCall
  /\ agg = [j \in Jobs |-> IdleAgg]
  /\ metadata \in [daily_capacity : CapValues, last_capacity_date : {-1, 0}]
  /\ today = 0
  /\ input = Empty

NextCap == Decrement \/ GetCapacity \/ CheckWarning \/ NextDay

SpecCap == InitCap /\ [][NextCap]_vars

(***************************************************************************)
(* The concurrent capacity specification: NumThreads threads call          *)
(* get_daily_capacity() or decrement_daily_capacity() once each, step by   *)
(* step: take _token_lock, load_metadata, save_metadata (open(path, "w")   *)
(* empties the file, json.dump fills it), leave the with block.  The date  *)
(* is read while the lock is held, where the file cannot change, so the    *)
(* load and the date are one step.                                         *)
(***************************************************************************)
\* last_capacity_date of a file that holds no JSON
NoDate == -2
\* metadata.json between open(metadata_path, "w") and the end of json.dump
Truncated == [daily_capacity |-> Missing, last_capacity_date |-> NoDate]

\* "with _token_lock:" lets thread t in
AcquireAnyway(t) == TRUE
CanAcquire(t) == token_lock = 0

\* what the call of thread t computes from the metadata it loaded
Outcome(t) ==
  IF thr[t].op = "decrement" THEN decrement_daily_capacity(thr[t].md, thr[t].day)
  ELSE get_daily_capacity(thr[t].md, thr[t].day)

\* thread t returns: the remaining count and the value, as capCall keeps them
Return(t) ==
  [thr[t] EXCEPT !.pc = "release",
     !.value = IF thr[t].op = "decrement" THEN Outcome(t)[1].daily_capacity
               ELSE Outcome(t)[2],
     !.result = IF thr[t].op = "decrement" THEN Outcome(t)[2] ELSE TRUE]

\* the call of thread t reaches save_metadata
Saves(t) ==
  IF thr[t].op = "decrement" THEN Reloaded(thr[t].md, thr[t].day).daily_capacity > 0
  ELSE thr[t].md.daily_capacity = Missing \/ thr[t].md.last_capacity_date # thr[t].day

\* thread t calls op and enters the with block
ThreadAcquire(t, op) ==
  /\ thr[t].pc = "idle" /\ CanAcquire(t)
  /\ token_lock' = t
  /\ thr' = [thr EXCEPT ![t].pc = "load", ![t].op = op]
  /\ UNCHANGED <<regVars, hpc, orchVars, aggVars, workVars, cancelVars,
                 metadata, today, capCall, input>>

\* load_metadata and datetime.now(): json.load raises on a file that is being written
ThreadLoad(t) ==
  /\ thr[t].pc = "load"
  /\ thr' = [thr EXCEPT ![t] =
        IF metadata = Truncated
        THEN [@ EXCEPT !.pc = "release", !.md = metadata, !.day = today, !.raised = TRUE]
        ELSE [@ EXCEPT !.pc = "save", !.md = metadata, !.day = today]]
  /\ UNCHANGED <<regVars, hpc, orchVars, aggVars, workVars, cancelVars,
                 metadata, today, capCall, token_lock, input>>

\* the call returns without saving, or save_metadata opens the file for writing
ThreadOpen(t) ==
  /\ thr[t].pc = "save"
  /\ IF Saves(t)
     THEN /\ metadata' = Truncated
          /\ thr' = [thr EXCEPT ![t].pc = "dump"]
     ELSE /\ metadata' = metadata
          /\ thr' = [thr EXCEPT ![t] = Return(t)]
  /\ UNCHANGED <<regVars, hpc, orchVars, aggVars, workVars, cancelVars,
                 today, capCall, token_lock, input>>

\* json.dump writes the dict and the file is closed; the value is returned
ThreadDump(t) ==
  /\ thr[t].pc = "dump"
  /\ metadata' = Outcome(t)[1]
  /\ thr' = [thr EXCEPT ![t] = Return(t)]
  /\ UNCHANGED <<regVars, hpc, orchVars, aggVars, workVars, cancelVars,
                 today, capCall, token_lock, input>>

\* the with block is left, by the return or by the exception
ThreadRelease(t) ==
  /\ thr[t].pc = "release"
  /\ token_lock' = 0
  /\ thr' = [thr EXCEPT ![t].pc = "done"]
  /\ UNCHANGED <<regVars, hpc, orchVars, aggVars, workVars, cancelVars,
                 metadata, today, capCall, input>>

\* before any call, capCall.pre is metadata.json as the threads find it
InitConc ==
  /\ Idle
  /\ agg = [j \in Jobs |-> IdleAgg]
  /\ metadata \in [daily_capacity : CapValues, last_capacity_date : {-1, 0}]
  /\ capCall = [NoCall EXCEPT !.pre = metadata]
  /\ today = 0
  /\ input = Empty

NextConc ==
  \/ \E t \in Threads, op \in {"decrement", "get"} : ThreadAcquire(t, op)
  \/ \E t \in Threads : ThreadLoad(t)
  \/ \E t \in Threads : ThreadOpen(t)
  \/ \E t \in Threads : ThreadDump(t)
  \/ \E t \in Threads : ThreadRelease(t)
  \/ NextDay

SpecConc == InitConc /\ [][NextConc]_vars

(***************************************************************************)
(* The streaming specification: one job whose orchestrator has created the *)
(* output task and submitted the worker (the state OrchLaunch leaves), a   *)
(* worker that prints up to MaxStreamEmit fragments, and no cancel request.*)
(***************************************************************************)
\* "a\n": a line of other output; "\n": print(); a line of max_length + 1 characters
ProgressLine == <<Run("a", 1), Run("nl", 1)>>
BlankLine == <<Run("nl", 1)>>
LongLine == <<Run("a", max_length), Run("nl", 1)>>
\* "[aa]\n": another transcript line
SecondLine == <<Run("lb", 1), Run("a", 2), Run("rb", 1), Run("nl", 1)>>
StreamFrags == {TranscriptLine, SecondLine, ProgressLine, BlankLine, LongLine}

InitStream ==
  /\ user_processing_tasks =
        [o \in Owners |-> [NewEntry(1) EXCEPT !.task = 1, !.executor_task = 1, !.output_task = 1]]
  /\ shutdown_flag = [j \in Jobs |-> FALSE]
  /\ removals = [o \in Owners |-> 0]
  /\ regEpoch = [j \in Jobs |-> IF j = 1 THEN 0 ELSE -1]
  /\ hpc = [j \in Jobs |-> IF j = 1 THEN "done" ELSE "idle"]
  /\ opc = [j \in Jobs |-> IF j = 1 THEN "awaitExec" ELSE "none"]
  /\ oflag = [j \in Jobs |-> IF j = 1 THEN 1 ELSE 0]
  /\ ocancel = [j \in Jobs |-> FALSE]
  /\ notices = [j \in Jobs |-> <<>>]
  /\ agg = [j \in Jobs |-> IF j = 1 THEN [IdleAgg EXCEPT !.pc = "ready"] ELSE IdleAgg]
  /\ acancel = [j \in Jobs |-> FALSE]
  /\ sendLog = [j \in Jobs |-> <<>>]
  /\ wpc = [j \in Jobs |-> IF j = 1 THEN "queued" ELSE "none"]
  /\ xfut = [j \in Jobs |-> IF j = 1 THEN "pending" ELSE "none"]
  /\ output_queue = [j \in Jobs |-> <<>>]
  /\ pushed = [j \in Jobs |-> <<>>]
  /\ emitted = [j \in Jobs |-> 0]
  /\ builtins_print = 0
  /\ original_print = [j \in Jobs |-> 0]
  /\ cpc = [c \in Requests |-> "idle"]
  /\ cinfo = [c \in Requests |-> Absent]
  /\ capCall = NoCall
  /\ token_lock = 0
  /\ thr = [t \in Threads |-> IdleThread]
  /\ metadata = Fresh(0) /\ today = 0
  /\ input = Empty

NextStream ==
  \/ \E j \in OwnJobs : WorkerBegin(j)
  \/ \E j \in OwnJobs, frag \in StreamFrags : WorkerPrint(j, frag, MaxStreamEmit, TRUE)
  \/ \E j \in OwnJobs, raised \in BOOLEAN : WorkerEnd(j, raised, TRUE)
  \/ \E j \in OwnJobs : AggStart(j)
  \/ \E j \in OwnJobs, elapsed \in BOOLEAN : AggFragment(j, elapsed)
  \/ \E j \in OwnJobs : AggEnd(j)
  \/ \E j \in OwnJobs : AggTimeout(j)
  \/ \E j \in OwnJobs : SendOk(j, TRUE)
  \/ \E j \in OwnJobs : AggCancelled(j)
  \/ \E j \in OwnJobs, resetOk \in BOOLEAN : OrchExecDone(j, resetOk)
  \/ \E j \in OwnJobs, resetOk \in BOOLEAN : OrchOutDone(j, resetOk)
  \/ \E j \in OwnJobs : OrchOutTimeout(j)
  \/ \E j \in OwnJobs, ok \in BOOLEAN, resetOk \in BOOLEAN : OrchComplete(j, ok, resetOk)
  \/ \E j \in OwnJobs, ok \in BOOLEAN, resetOk \in BOOLEAN : OrchErrNotice(j, ok, resetOk)

SpecStream == InitStream /\ [][NextStream]_vars

(***************************************************************************)
(* The shared-flag specification.  It starts where the lifecycle can come: *)
(* job 1 was cancelled before its handler created its orchestrator, job 2  *)
(* was then accepted, orchestrator 1 read the flag of job 2 from the       *)
(* owner's entry, and both orchestrators have launched their worker and    *)
(* their output task.  Output task 1 polls the flag of job 2 and is in no  *)
(* entry, so a cancel request sets the flag it polls and cancels only      *)
(* output task 2.                                                          *)
(***************************************************************************)
DrainStart ==
  /\ user_processing_tasks =
        [o \in Owners |-> [NewEntry(2) EXCEPT !.task = 2, !.executor_task = 2, !.output_task = 2]]
  /\ shutdown_flag = [j \in Jobs |-> j = 1]
  /\ removals = [o \in Owners |-> 1]
  /\ regEpoch = [j \in Jobs |-> IF j <= 2 THEN j - 1 ELSE -1]
  /\ hpc = [j \in Jobs |-> IF j <= 2 THEN "done" ELSE "idle"]
  /\ opc = [j \in Jobs |-> IF j <= 2 THEN "awaitExec" ELSE "none"]
  /\ oflag = [j \in Jobs |-> IF j <= 2 THEN 2 ELSE 0]
  /\ ocancel = [j \in Jobs |-> FALSE]
  /\ notices = [j \in Jobs |-> <<>>]
  /\ agg = [j \in Jobs |-> IF j <= 2 THEN [IdleAgg EXCEPT !.pc = "ready"] ELSE IdleAgg]
  /\ acancel = [j \in Jobs |-> FALSE]
  /\ sendLog = [j \in Jobs |-> <<>>]
  /\ wpc = [j \in Jobs |-> IF j <= 2 THEN "queued" ELSE "none"]
  /\ xfut = [j \in Jobs |-> IF j <= 2 THEN "pending" ELSE "none"]
  /\ output_queue = [j \in Jobs |-> <<>>]
  /\ pushed = [j \in Jobs |-> <<>>]
  /\ emitted = [j \in Jobs |-> 0]
  /\ builtins_print = 0
  /\ original_print = [j \in Jobs |-> 0]
  /\ metadata = Fresh(0) /\ today = 0
  /\ input = Empty

InitDrain ==
  /\ DrainStart
  /\ cpc = [c \in Requests |-> "idle"]
  /\ cinfo = [c \in Requests |-> Absent]
  /\ capCall = NoCall
  /\ token_lock = 0
  /\ thr = [t \in Threads |-> IdleThread]

NextDrain ==
  \/ \E j \in OwnJobs : WorkerBegin(j)
  \/ \E j \in {1}, frag \in {ProgressLine} : WorkerPrint(j, frag, MaxDrainEmit, FALSE)
  \/ \E j \in OwnJobs, raised \in BOOLEAN : WorkerEnd(j, raised, FALSE)
  \/ \E j \in OwnJobs : AggCancelled(j)
  \/ \E j \in OwnJobs : AggStart(j)
  \/ \E j \in OwnJobs, elapsed \in BOOLEAN : AggFragment(j, elapsed)
  \/ \E j \in OwnJobs : AggEnd(j)
  \/ \E j \in OwnJobs : AggTimeout(j)
  \/ \E j \in OwnJobs : SendOk(j, FALSE)
  \/ \E j \in OwnJobs, resetOk \in BOOLEAN : OrchExecDone(j, resetOk)
  \/ \E j \in OwnJobs, resetOk \in BOOLEAN : OrchOutDone(j, resetOk)
  \/ \E j \in OwnJobs : OrchOutTimeout(j)
  \/ \E j \in OwnJobs, ok \in BOOLEAN, resetOk \in BOOLEAN : OrchComplete(j, ok, resetOk)
  \/ \E j \in OwnJobs, ok \in BOOLEAN, resetOk \in BOOLEAN : OrchCancelNotice(j, ok, resetOk)
  \/ \E j \in OwnJobs, ok \in BOOLEAN, resetOk \in BOOLEAN : OrchErrNotice(j, ok, resetOk)
  \/ \E c \in LifeCancels : CancelBegin(c)
  \/ \E c \in LifeCancels : CancelOutDone(c)
  \/ \E c \in LifeCancels : CancelExecDone(c)
  \/ \E c \in LifeCancels : CancelExecTimeout(c)
  \/ \E c \in LifeCancels : CancelTaskDone(c)
  \/ \E c \in LifeCancels : CancelTaskTimeout(c)

SpecDrain == InitDrain /\ [][NextDrain]_vars

(***************************************************************************)
(* The orphan specification: a job that runs while its owner has no entry. *)
(* It starts where the lifecycle stands after: request 1 was accepted and  *)
(* cancelled before its orchestrator existed, the file request 2 was then  *)
(* accepted, orchestrator 1 read the flag of job 2 from the owner's entry  *)
(* and launched its worker and its output task, and the download of        *)
(* request 2 failed, which removed the entry.  A cancel request of the     *)
(* owner now finds no entry.                                               *)
(***************************************************************************)
OrphanStart ==
  /\ user_processing_tasks = [o \in Owners |-> Absent]
  /\ shutdown_flag = [j \in Jobs |-> j = 1]
  /\ removals = [o \in Owners |-> 2]
  /\ regEpoch = [j \in Jobs |-> IF j <= 2 THEN j - 1 ELSE -1]
  /\ hpc = [j \in Jobs |-> IF j = 1 THEN "done" ELSE IF j = 2 THEN "failed" ELSE "idle"]
  /\ opc = [j \in Jobs |-> IF j = 1 THEN "awaitExec" ELSE "none"]
  /\ oflag = [j \in Jobs |-> IF j = 1 THEN 2 ELSE 0]
  /\ ocancel = [j \in Jobs |-> FALSE]
  /\ notices = [j \in Jobs |-> <<>>]
  /\ agg = [j \in Jobs |-> IF j = 1 THEN [IdleAgg EXCEPT !.pc = "ready"] ELSE IdleAgg]
  /\ acancel = [j \in Jobs |-> FALSE]
  /\ sendLog = [j \in Jobs |-> <<>>]
  /\ wpc = [j \in Jobs |-> IF j = 1 THEN "queued" ELSE "none"]
  /\ xfut = [j \in Jobs |-> IF j = 1 THEN "pending" ELSE "none"]
  /\ output_queue = [j \in Jobs |-> <<>>]
  /\ pushed = [j \in Jobs |-> <<>>]
  /\ emitted = [j \in Jobs |-> 0]
  /\ builtins_print = 0
  /\ original_print = [j \in Jobs |-> 0]
  /\ metadata = Fresh(0) /\ today = 0
  /\ input = Empty

InitOrphan ==
  /\ OrphanStart
  /\ cpc = [c \in Requests |-> "idle"]
  /\ cinfo = [c \in Requests |-> Absent]
  /\ capCall = NoCall
  /\ token_lock = 0
  /\ thr = [t \in Threads |-> IdleThread]

NextOrphan ==
  \/ \E j \in OwnJobs : WorkerBegin(j)
  \/ \E j \in OwnJobs, frag \in {TranscriptLine, ProgressLine} :
        WorkerPrint(j, frag, MaxDrainEmit, FALSE)
  \/ \E j \in OwnJobs, raised \in BOOLEAN : WorkerEnd(j, raised, FALSE)
  \/ \E j \in OwnJobs : AggCancelled(j)
  \/ \E j \in OwnJobs : AggStart(j)
  \/ \E j \in OwnJobs, elapsed \in BOOLEAN : AggFragment(j, elapsed)
  \/ \E j \in OwnJobs : AggEnd(j)
  \/ \E j \in OwnJobs : AggTimeout(j)
  \/ \E j \in OwnJobs : SendOk(j, FALSE)
  \/ \E j \in OwnJobs, resetOk \in BOOLEAN : OrchExecDone(j, resetOk)
  \/ \E j \in OwnJobs, resetOk \in BOOLEAN : OrchOutDone(j, resetOk)
  \/ \E j \in OwnJobs : OrchOutTimeout(j)
  \/ \E j \in OwnJobs, ok \in BOOLEAN, resetOk \in BOOLEAN : OrchComplete(j, ok, resetOk)
  \/ \E j \in OwnJobs, ok \in BOOLEAN, resetOk \in BOOLEAN : OrchErrNotice(j, ok, resetOk)
  \/ \E c \in LifeCancels : CancelBegin(c)

SpecOrphan == InitOrphan /\ [][NextOrphan]_vars

(***************************************************************************)
(* The repeated-cancel specification: one job, launched as in the          *)
(* streaming specification, and NumTwice cancel requests of its owner      *)
(* (/cancel sent more than once, or /cancel and the shutdown of the        *)
(* server), which may overlap.                                             *)
(***************************************************************************)
NextTwice ==
  \/ \E j \in OwnJobs : WorkerBegin(j)
  \/ \E j \in OwnJobs, frag \in {ProgressLine} : WorkerPrint(j, frag, MaxEmit, FALSE)
  \/ \E j \in OwnJobs, raised \in BOOLEAN : WorkerEnd(j, raised, FALSE)
  \/ \E j \in OwnJobs : AggCancelled(j)
  \/ \E j \in OwnJobs : AggStart(j)
  \/ \E j \in OwnJobs, elapsed \in BOOLEAN : AggFragment(j, elapsed)
  \/ \E j \in OwnJobs : AggEnd(j)
  \/ \E j \in OwnJobs : AggTimeout(j)
  \/ \E j \in OwnJobs : SendOk(j, FALSE)
  \/ \E j \in OwnJobs, resetOk \in BOOLEAN : OrchExecDone(j, resetOk)
  \/ \E j \in OwnJobs, resetOk \in BOOLEAN : OrchOutDone(j, resetOk)
  \/ \E j \in OwnJobs : OrchOutTimeout(j)
  \/ \E j \in OwnJobs, ok \in BOOLEAN, resetOk \in BOOLEAN : OrchComplete(j, ok, resetOk)
  \/ \E j \in OwnJobs, ok \in BOOLEAN, resetOk \in BOOLEAN : OrchCancelNotice(j, ok, resetOk)
  \/ \E j \in OwnJobs, ok \in BOOLEAN, resetOk \in BOOLEAN : OrchErrNotice(j, ok, resetOk)
  \/ \E c \in Cancels : CancelBegin(c)
  \/ \E c \in Cancels : CancelOutDone(c)
  \/ \E c \in Cancels : CancelExecDone(c)
  \/ \E c \in Cancels : CancelExecTimeout(c)
  \/ \E c \in Cancels : CancelTaskDone(c)
  \/ \E c \in Cancels : CancelTaskTimeout(c)

SpecTwice == InitStream /\ [][NextTwice]_vars

(***************************************************************************)
(* The two-owner specification: one job of each of two owners, each        *)
(* registered with its task attached and its orchestrator awaiting the     *)
(* "processing started" message; the jobs start, print and end in any      *)
(* interleaving.  Each worker prints a line of its own.                    *)
(***************************************************************************)
PairJobs == {1, NumJobs + 1}
FragOf(j) == IF OwnerOf(j) = 1 THEN TranscriptLine ELSE SecondLine

PairStart ==
  /\ user_processing_tasks =
        [o \in Owners |-> LET j == CHOOSE k \in PairJobs : OwnerOf(k) = o
                          IN  [NewEntry(j) EXCEPT !.task = j]]
  /\ shutdown_flag = [j \in Jobs |-> FALSE]
  /\ removals = [o \in Owners |-> 0]
  /\ regEpoch = [j \in Jobs |-> IF j \in PairJobs THEN 0 ELSE -1]
  /\ hpc = [j \in Jobs |-> IF j \in PairJobs THEN "done" ELSE "idle"]
  /\ opc = [j \in Jobs |-> IF j \in PairJobs THEN "startedSend" ELSE "none"]
  /\ oflag = [j \in Jobs |-> IF j \in PairJobs THEN j ELSE 0]
  /\ ocancel = [j \in Jobs |-> FALSE]
  /\ notices = [j \in Jobs |-> <<>>]
  /\ agg = [j \in Jobs |-> IdleAgg]
  /\ acancel = [j \in Jobs |-> FALSE]
  /\ sendLog = [j \in Jobs |-> <<>>]
  /\ wpc = [j \in Jobs |-> "none"]
  /\ xfut = [j \in Jobs |-> "none"]
  /\ output_queue = [j \in Jobs |-> <<>>]
  /\ pushed = [j \in Jobs |-> <<>>]
  /\ emitted = [j \in Jobs |-> 0]
  /\ builtins_print = 0
  /\ original_print = [j \in Jobs |-> 0]
  /\ metadata = Fresh(0) /\ today = 0
  /\ input = Empty

InitPair ==
  /\ PairStart
  /\ cpc = [c \in Requests |-> "idle"]
  /\ cinfo = [c \in Requests |-> Absent]
  /\ capCall = NoCall
  /\ token_lock = 0
  /\ thr = [t \in Threads |-> IdleThread]

NextPair ==
  \/ \E j \in PairJobs : OrchLaunch(j)
  \/ \E j \in PairJobs : WorkerBegin(j)
  \/ \E j \in PairJobs : WorkerPrint(j, FragOf(j), MaxEmit, TRUE)
  \/ \E j \in PairJobs, raised \in BOOLEAN : WorkerEnd(j, raised, TRUE)
  \/ \E j \in PairJobs : AggCancelled(j)
  \/ \E j \in PairJobs : AggStart(j)
  \/ \E j \in PairJobs, elapsed \in BOOLEAN : AggFragment(j, elapsed)
  \/ \E j \in PairJobs : AggEnd(j)
  \/ \E j \in PairJobs : AggTimeout(j)
  \/ \E j \in PairJobs : SendOk(j, TRUE)
  \/ \E j \in PairJobs, resetOk \in BOOLEAN : OrchExecDone(j, resetOk)
  \/ \E j \in PairJobs, resetOk \in BOOLEAN : OrchOutDone(j, resetOk)
  \/ \E j \in PairJobs : OrchOutTimeout(j)
  \/ \E j \in PairJobs, ok \in BOOLEAN, resetOk \in BOOLEAN : OrchComplete(j, ok, resetOk)
  \/ \E j \in PairJobs, ok \in BOOLEAN, resetOk \in BOOLEAN : OrchErrNotice(j, ok, resetOk)

SpecPair == InitPair /\ [][NextPair]_vars

(***************************************************************************)
(* Properties of the lifecycle (Spec, SpecLive).                           *)
(***************************************************************************)
\* the request of job j reached the check-and-insert, and what it was told
Decided(j) == regEpoch[j] >= 0
Accepted(j) == Decided(j) /\ hpc[j] # "rejected"

\* the requests of owner o decided while e removals of its entry had happened
Round(o, e) == {j \in Jobs : OwnerOf(j) = o /\ regEpoch[j] = e}

\* C1: among the start requests of one owner that were decided with no
\* removal of the owner's entry in between, exactly one was accepted (it
\* registered its entry); every other one saw the entry and was rejected.
C1_OneAcceptedPerRound ==
  \A o \in Owners : \A e \in 0..NumJobs + NumCancels :
    Round(o, e) # {} => Cardinality({j \in Round(o, e) : Accepted(j)}) = 1

\* two handlers raced: one is accepted and still at its first await, the
\* other was rejected in the same round
C1_Witness ==
  \E j, k \in Jobs :
    /\ j # k /\ OwnerOf(j) = OwnerOf(k)
    /\ regEpoch[j] = regEpoch[k] /\ Decided(j)
    /\ hpc[j] \in {"ack", "dlmsg"} /\ hpc[k] = "rejected"

\* the worker of job j has started and not ended, and the flag it polls is not set
LiveUnflagged(j) == wpc[j] = "run" /\ ~shutdown_flag[oflag[j]]

\* C2: at any time at most one job of an owner has a started, unfinished
\* worker that has not been asked to stop (whose shutdown flag is not set).
C2_OneLiveWorker ==
  \A o \in Owners :
    Cardinality({j \in Jobs : OwnerOf(j) = o /\ LiveUnflagged(j)}) <= 1

\* a rejected request started nothing
StartedNothing(j) ==
  /\ opc[j] = "none" /\ agg[j].pc = "none" /\ wpc[j] = "none" /\ xfut[j] = "none"
  /\ \A o \in Owners : user_processing_tasks[o].flag # j

\* C3: the step that rejects a start request leaves the owner's entry (its
\* flag and its handles) and every shutdown flag as they were, and no
\* orchestrator, output task or worker is ever started for that request.
C3_RejectionChangesNothing ==
  /\ [][\A j \in Jobs : hpc[j] # "rejected" /\ hpc'[j] = "rejected" =>
          /\ user_processing_tasks' = user_processing_tasks
          /\ shutdown_flag' = shutdown_flag
          /\ Present(OwnerOf(j))]_vars
  /\ [](\A j \in Jobs : hpc[j] = "rejected" => StartedNothing(j))

\* a request was rejected while the running job had its handles attached
C3_Witness ==
  \E j, k \in Jobs :
    /\ j # k /\ hpc[k] = "rejected" /\ StartedNothing(k)
    /\ user_processing_tasks[OwnerOf(k)].flag = j
    /\ user_processing_tasks[OwnerOf(k)].executor_task = j
    /\ wpc[j] = "run"

\* the orchestrator of job j ran its first step and, having found the flag,
\* is inside the try block
InTry(j) == opc[j] \notin {"none", "ready", "noflag"} \cup Final
Started(j) == opc[j] \notin {"none", "ready"}

\* C4: an orchestrator that has started always finishes; when it finishes
\* from inside the try block (completion, worker exception, cancellation, a
\* failed notice, a failed set-up), the owner has no registry entry at that
\* moment; when it returns because it found no flag, no entry of its job is
\* in the registry.
C4_EntryAbsentAtFinish ==
  /\ [][\A j \in Jobs : opc'[j] \in Final =>
          /\ InTry(j) => ~Present(OwnerOf(j))'
          /\ opc[j] = "noflag" => user_processing_tasks'[OwnerOf(j)].flag # j]_vars
  /\ \A j \in Jobs : Started(j) ~> opc[j] \in Final

\* an orchestrator cancelled while its worker ran has finished after its
\* cancel notice, and the owner has no entry
C4_Witness ==
  \E j \in Jobs :
    /\ opc[j] \in Final /\ wpc[j] = "done"
    /\ \E i \in DOMAIN notices[j] : notices[j][i].what = "cancel"
    /\ ~Present(OwnerOf(j))

\* how far the cascade of a cancel request has come
Rank(stage) ==
  CASE stage = "idle" -> 0
    [] stage = "waitOut" -> 1
    [] stage = "waitExec" -> 2
    [] stage = "waitTask" -> 3
    [] OTHER -> 4

\* the handle h of kind `of` is not there, or is done
Over(of, h) == h = 0 \/ of[h] \in Final

\* C14: a cancel request that finds an entry goes through its steps in one
\* order and never back: it sets the entry's shutdown flag before anything
\* else; it cancels the output task and waits for it only from the start;
\* it begins the wait for the worker only when the output task is over, and
\* that step cancels nothing and stops no worker; it cancels the
\* orchestrator task only when the wait for the worker is over (the worker
\* ended or the wait timed out); it deletes the entry only when the
\* orchestrator task is over.  A step whose handle is missing or done is
\* passed over.  No step of a cancel request changes where a worker stands.
C14_CascadeOrder ==
  [][\A c \in Cancels :
       LET info == cinfo'[c]
           now == cpc'[c]
       IN  cpc[c] # now =>
             /\ Rank(now) > Rank(cpc[c])
             /\ wpc' = wpc
             /\ info # Absent => shutdown_flag'[info.flag]
             /\ now = "waitOut" => cpc[c] = "idle" /\ acancel'[info.output_task]
             /\ now = "waitExec" =>
                  /\ Over([k \in Jobs |-> agg[k].pc], info.output_task)
                  /\ xfut' = xfut /\ ocancel' = ocancel /\ acancel' = acancel
             /\ now = "waitTask" =>
                  /\ Over([k \in Jobs |-> agg[k].pc], info.output_task)
                  /\ Over(xfut', info.executor_task)
                  /\ ocancel'[info.task]
             /\ now = "done" /\ info # Absent =>
                  /\ Over([k \in Jobs |-> agg[k].pc], info.output_task)
                  /\ Over(xfut', info.executor_task)
                  /\ Over(opc, info.task)
                  /\ ~Present(CancelOwner(c))']_vars

\* a cascade that found all three handles has deleted the entry, after its
\* wait for the worker timed out: the worker is still running
C14_Witness ==
  \E c \in Cancels :
    /\ cpc[c] = "done"
    /\ cinfo[c].output_task # 0 /\ cinfo[c].executor_task # 0 /\ cinfo[c].task # 0
    /\ xfut[cinfo[c].executor_task] = "cancelled"
    /\ wpc[cinfo[c].executor_task] = "run"
    /\ opc[cinfo[c].task] \in Final
    /\ ~Present(CancelOwner(c))

\* the final notices of job j: what its orchestrator sent, and the replies
\* of the cancel commands that cancelled it
FinalNotices(j) == Len(notices[j]) + Cardinality(CancelReplies(j))

\* the orchestrator of job j is over and no cancel request is under way
Settled(j) ==
  opc[j] \in Final /\ \A c \in Cancels : cpc[c] \in {"idle", "done", "aborted", "raised"}

\* C16 as stated: a job that is over has had exactly one final notice
\* (completion, cancellation or error), never two and never none.
C16_ExactlyOneNotice ==
  \A j \in Jobs : Settled(j) => FinalNotices(j) = 1

\* the orchestrator of job j has one more notice behind it after this step
NoticeSent(j) == Len(notices'[j]) > Len(notices[j])

\* C17 (amended): a notice of the orchestrator is sent before the
\* orchestrator removes the owner's entry.  As long as no cancel request
\* has begun, the entry of the job is in the registry when a notice of it
\* is sent; the orchestrator deletes the entry only in the step in which it
\* ends, and sends nothing after that.  (A cancel request may have deleted
\* the entry before, and the reply of the cancel command comes after the
\* cancel request has deleted it.)
C17_NoticeBeforeOwnRemoval ==
  [][/\ \A j \in Jobs :
          /\ NoticeSent(j) /\ (\A c \in Cancels : cpc[c] = "idle") =>
               user_processing_tasks[OwnerOf(j)].flag = j
          /\ opc[j] \in Final => notices'[j] = notices[j]
     /\ \A o \in Owners :
          Present(o) /\ ~Present(o)' =>
            \/ \E c \in Cancels : cpc'[c] # cpc[c]
            \/ \E j \in OwnJobs : hpc'[j] # hpc[j]
            \/ \E j \in OwnJobs : OwnerOf(j) = o /\ opc[j] \notin Final /\ opc'[j] \in Final]_vars

\* C17 as stated: when a final notice of a job is sent, by its orchestrator
\* or as the reply of the cancel command that cancelled it, the entry of the
\* job is still in the registry.
C17_EntryPresentAtNotice ==
  [][/\ \A j \in Jobs : NoticeSent(j) => user_processing_tasks[OwnerOf(j)].flag = j
     /\ \A c \in Cancels :
          cpc[c] # "done" /\ cpc'[c] = "done" /\ cinfo'[c] # Absent =>
            user_processing_tasks'[CancelOwner(c)].flag = cinfo'[c].flag]_vars

\* a job that no cancel request touched has ended after its completion
\* notice, and its entry is gone
C17_Witness ==
  \E j \in Jobs :
    /\ opc[j] = "done" /\ notices[j] = <<Notice("complete", TRUE)>>
    /\ ~Present(OwnerOf(j))
    /\ \A c \in Cancels : cpc[c] = "idle"

\* this step appends the completion notice of job j
CompletionSent(j) ==
  /\ Len(notices'[j]) = Len(notices[j]) + 1
  /\ notices'[j][Len(notices'[j])].what = "complete"

\* C19: the orchestrator goes on to send the completion notice only when the
\* shutdown flag it holds, the one it read from the owner's entry at its
\* start, is not set at that moment, and a completion notice is appended only
\* by that send when the orchestrator was not cancelled meanwhile.
C19_CompletionOnlyIfHeldFlagUnset ==
  /\ [][\A j \in Jobs : opc[j] # "completeSend" /\ opc'[j] = "completeSend"
            => ~shutdown_flag[oflag[j]] /\ shutdown_flag' = shutdown_flag]_vars
  /\ [][\A j \in Jobs : CompletionSent(j)
            => opc[j] = "completeSend" /\ ~ocancel[j]]_vars

\* C19 as stated: no completion notice is sent for a job whose own flag, the
\* one created with its entry, is set.
C19_NoCompletionOnceCancelled ==
  [][\A j \in Jobs : CompletionSent(j) => ~shutdown_flag[j]]_vars

\* a cancel request set the flag the orchestrator holds after the wait for
\* the output task began, and the orchestrator ended with no completion notice
C19_Witness ==
  \E j \in Jobs :
    /\ oflag[j] = j /\ shutdown_flag[j] /\ opc[j] \in Final
    /\ agg[j].pc \in Final /\ wpc[j] = "done"
    /\ \A n \in 1..Len(notices[j]) : notices[j][n].what # "complete"

(***************************************************************************)
(* Properties of an output task whose flag is set (SpecDrain).             *)
(***************************************************************************)
\* the output task of job j sits in output_queue.get() and its flag is set
PollsFlagged(j) == agg[j].pc = "poll" /\ shutdown_flag[oflag[j]]

Handed(log) ==
  LET firsts == SelectSeq(log, LAMBDA e : e.n = 0)
  IN  [i \in 1..Len(firsts) |-> firsts[i].t]

\* the number of whitespace characters a text starts with
RECURSIVE LeadWs(_)
LeadWs(t) ==
  IF t = <<>> \/ Head(t).c \notin Whitespace THEN 0 ELSE Head(t).n + LeadWs(Tail(t))

\* text is the texts of sent, in order, with nothing but whitespace before,
\* between and after them
RECURSIVE Gapped(_, _)
Gapped(text, sent) ==
  IF sent = <<>> THEN IsBlank(text)
  ELSE LET n == TLen(Head(sent)) IN
       \/ /\ Prefix(text, n) = Head(sent)
          /\ Gapped(Suffix(text, n), Tail(sent))
       \/ \E k \in 1..LeadWs(text) :
             /\ Prefix(Suffix(text, k), n) = Head(sent)
             /\ Gapped(Suffix(text, k + n), Tail(sent))

\* C6 (amended): when a call of send_text_to_telegram has returned, the chunks
\* it handed to the send, concatenated in order, are the input text with only
\* whitespace-only stretches left out (the chunks that are blank, a blank
\* remainder, a blank input): no other character is dropped, none is
\* duplicated or moved.
C6_RoundTripModuloBlank ==
  agg[1].pc = "done" =>
    /\ Gapped(input, Handed(sendLog[1]))
    /\ NonWs(Join(Handed(sendLog[1]))) = NonWs(input)

\* C6 as stated: the concatenation of the chunks sent is the input text exactly.
C6_RoundTripExact ==
  agg[1].pc = "done" => Join(Handed(sendLog[1])) = input

\* a call that sent two chunks or more and left a blank piece out
C6_Witness ==
  /\ agg[1].pc = "done"
  /\ Len(Handed(sendLog[1])) >= 2
  /\ TLen(Join(Handed(sendLog[1]))) < TLen(input)

\* C7: every text passed to client.send_message, at the first attempt and at
\* every retry, is at most max_length = 4000 characters long.
C7_ChunkWithinLimit ==
  \A j \in Jobs : \A i \in DOMAIN sendLog[j] : TLen(sendLog[j][i].t) <= max_length

\* a call that sent a chunk of exactly max_length characters and another one
C7_Witness ==
  /\ agg[1].pc = "done"
  /\ Len(Handed(sendLog[1])) >= 2
  /\ \E i \in DOMAIN sendLog[1] : TLen(sendLog[1][i].t) = max_length

\* the text still to be split when chunk i of cs is cut from text
RECURSIVE RemainingAt(_, _, _)
RemainingAt(text, cs, i) ==
  IF i <= 1 THEN text ELSE RemainingAt(Suffix(text, TLen(Head(cs))), Tail(cs), i - 1)

\* chunk i of cs is cut from text as the rule says, the line break counting
\* when atOrAfter(its index) holds
CutByRule(text, cs, i, atOrAfter(_)) ==
  LET rem == RemainingAt(text, cs, i)
      p == RFind(Prefix(rem, max_length), "nl")
  IN  IF TLen(rem) > max_length
      THEN IF p >= 0 /\ atOrAfter(p)
           THEN cs[i] = Prefix(rem, p + 1)
           ELSE cs[i] = Prefix(rem, max_length)
      ELSE cs[i] = rem

\* C8 (amended): while the remaining text is longer than L = 4000, the next
\* chunk ends just after the last line break of the first L characters when
\* the index of that line break is strictly greater than 0.7 * L, and the
\* remainder starts right after it; otherwise (no line break, or the last
\* at index 0.7 * L or before) the chunk is the first L characters.
C8_CutStrictlyAfter70 ==
  agg[1].pc \in {"send", "backoff"} =>
    \A i \in DOMAIN agg[1].chunks :
      CutByRule(input, agg[1].chunks, i, LAMBDA p : p * 10 > max_length * 7)

\* C8 as stated: a line break at or after 0.7 * L, exactly there included, is
\* where the chunk ends.
C8_CutAtOrAfter70 ==
  agg[1].pc \in {"send", "backoff"} =>
    \A i \in DOMAIN agg[1].chunks :
      CutByRule(input, agg[1].chunks, i, LAMBDA p : p * 10 >= max_length * 7)

\* a text longer than L whose first chunk was cut after a line break
C8_Witness ==
  /\ agg[1].pc = "send"
  /\ TLen(input) > max_length
  /\ RFind(Prefix(input, max_length), "nl") * 10 > max_length * 7
  /\ agg[1].chunks[1] = Prefix(input, RFind(Prefix(input, max_length), "nl") + 1)
  /\ TLen(agg[1].chunks[1]) < max_length

(***************************************************************************)
(* Properties of the daily capacity (SpecCap).                             *)
(***************************************************************************)
\* the last call was decrement_daily_capacity() on a counter of the same day
SameDayDecrement ==
  capCall.op = "decrement" /\ capCall.pre.last_capacity_date = capCall.day

\* C9 (amended): from remaining = 1 on the current UTC day, the first
\* decrement() returns false (nothing is left after it) and leaves remaining
\* at 0; every later decrement() on that day returns false and leaves
\* remaining at 0; after the day rolls over decrement() returns true again.
C9_ExhaustionReturnsFalse ==
  /\ SameDayDecrement /\ capCall.pre.daily_capacity = 1 =>
       ~capCall.result /\ metadata = [daily_capacity |-> 0, last_capacity_date |-> capCall.day]
  /\ SameDayDecrement /\ capCall.pre.daily_capacity = 0 =>
       ~capCall.result /\ metadata = capCall.pre
  /\ capCall.op = "decrement" /\ capCall.pre.last_capacity_date # capCall.day =>
       capCall.result

\* C9 as stated: the decrement() that takes remaining from 1 to 0 returns true.
C9_LastUnitReturnsTrue ==
  SameDayDecrement /\ capCall.pre.daily_capacity = 1 =>
    capCall.result /\ metadata.daily_capacity = 0

\* the decrement() that took the last unit of the day
C9_Witness ==
  /\ SameDayDecrement /\ capCall.pre.daily_capacity = 1
  /\ metadata.daily_capacity = 0 /\ today = capCall.day

\* C10: when the stored day is not today (UTC), decrement() returns true and
\* stores today with remaining = DAILY_CAPACITY - 1 = 999, whatever the stale
\* remaining value was.
C10_StaleDayReset ==
  capCall.op = "decrement" /\ capCall.pre.last_capacity_date # capCall.day =>
    /\ capCall.result
    /\ metadata = [daily_capacity |-> DAILY_CAPACITY - 1, last_capacity_date |-> capCall.day]

\* a decrement() that found a stale day with 2 remaining
C10_Witness ==
  /\ capCall.op = "decrement" /\ capCall.pre.last_capacity_date # capCall.day
  /\ capCall.pre.daily_capacity = 2
  /\ metadata.daily_capacity = DAILY_CAPACITY - 1

\* C11: once a capacity function has run, the stored remaining count and the
\* value returned are never negative (a stored count, when the key is there,
\* never is), through any sequence of get_daily_capacity(), warning checks,
\* decrement() and day changes; a decrement() at remaining = 0 on the same
\* day returns false and leaves metadata.json as it was.
C11_NeverNegative ==
  /\ metadata.daily_capacity # Missing => metadata.daily_capacity >= 0
  /\ capCall.op # "none" => metadata.daily_capacity >= 0 /\ capCall.value >= 0
  /\ SameDayDecrement /\ capCall.pre.daily_capacity = 0 =>
       ~capCall.result /\ metadata = capCall.pre

\* a decrement() refused at remaining = 0 after a day had passed
C11_Witness ==
  /\ SameDayDecrement /\ capCall.pre.daily_capacity = 0
  /\ ~capCall.result /\ metadata.daily_capacity = 0
  /\ capCall.day > 0

\* C13: the warning check is true exactly when the remaining count, taken
\* after the new-day reset, is below WARNING_THRESHOLD = 50: on a record of
\* another day, whatever its remaining value, it is false and the record is
\* stored as remaining = 1000 with today's date; on a record of today it is
\* true exactly when remaining < 50, and the record is left as it was.
C13_WarnBelowThreshold ==
  capCall.op = "warn" =>
    /\ capCall.pre.last_capacity_date # capCall.day =>
         ~capCall.result /\ metadata = Fresh(capCall.day)
    /\ capCall.pre.last_capacity_date = capCall.day /\ capCall.pre.daily_capacity # Missing =>
         /\ capCall.result = (capCall.pre.daily_capacity < WARNING_THRESHOLD)
         /\ metadata = capCall.pre

\* a warning check that found 49 remaining on a record of another day
C13_Witness ==
  /\ capCall.op = "warn" /\ capCall.pre.last_capacity_date # capCall.day
  /\ capCall.pre.daily_capacity = WARNING_THRESHOLD - 1
  /\ ~capCall.result /\ metadata.daily_capacity = DAILY_CAPACITY

(***************************************************************************)
(* Properties of the concurrent capacity calls (SpecConc).                 *)
(***************************************************************************)
\* the threads that have read metadata.json, and those of them that decrement
Loaded == {t \in Threads : thr[t].pc \notin {"idle", "load"}}
Decrementers == {t \in Loaded : thr[t].op = "decrement"}

\* every call so far ran on the day the file carried at the start: no reset
SameDayRun ==
  /\ capCall.pre.daily_capacity # Missing
  /\ \A t \in Loaded : thr[t].day = capCall.pre.last_capacity_date

\* C12: calls of the capacity functions from several threads behave as if
\* each ran alone at one instant.  A thread writes metadata.json only while
\* the file is still what that thread read (no update is lost) and never
\* reads a file that another thread is writing; so k concurrent decrement()
\* on the day of the record with remaining = n >= k leave remaining = n - k,
\* and a concurrent get_daily_capacity() returns n minus a whole number of
\* those decrements.
C12_Linearizable ==
  /\ [][\A t \in Threads :
          thr[t].pc = "save" /\ thr'[t].pc # "save" => metadata = thr[t].md]_vars
  /\ [](\A t \in Threads : ~thr[t].raised /\ (t \in Loaded => thr[t].md # Truncated))
  /\ []((\A t \in Threads : thr[t].pc = "done") /\ SameDayRun
          /\ capCall.pre.daily_capacity >= Cardinality(Decrementers)
        => metadata = [capCall.pre EXCEPT
                         !.daily_capacity = @ - Cardinality(Decrementers)])
  /\ [](\A t \in Threads :
          thr[t].pc = "done" /\ thr[t].op = "get" /\ SameDayRun =>
            \E i \in 0..Cardinality(Decrementers) :
              /\ capCall.pre.daily_capacity >= i
              /\ thr[t].value = capCall.pre.daily_capacity - i)

\* two threads decremented and one read the count in between: 2, 1, 0
C12_Witness ==
  /\ \A t \in Threads : thr[t].pc = "done"
  /\ SameDayRun /\ capCall.pre.daily_capacity = 2
  /\ Cardinality(Decrementers) = 2
  /\ \E t \in Threads : thr[t].op = "get" /\ thr[t].value = 1
  /\ metadata.daily_capacity = 0

(***************************************************************************)
(* Properties of the output stream (SpecStream).                           *)
(***************************************************************************)
\* the texts client.send_message accepted, in order
Sent(log) ==
  LET oks == SelectSeq(log, LAMBDA e : e.ok)
  IN  [i \in 1..Len(oks) |-> oks[i].t]

\* the fragments put in a queue before its end marker, concatenated
RECURSIVE BeforeEnd(_)
BeforeEnd(items) ==
  IF items = <<>> \/ Head(items) = EOS THEN Empty
  ELSE Cat(Head(items), BeforeEnd(Tail(items)))

\* the output task ended by itself, having read the end marker
StreamEnded(j) == agg[j].pc = "done" /\ wpc[j] = "done"

\* C5 (amended): when the output task is not cancelled, the flag not set and
\* every send succeeds, the texts handed to the send, concatenated in send
\* order, are the concatenation of the fragments pushed before the end
\* marker with only whitespace-only stretches left out (a blank buffer at the
\* end of the stream and blank chunks are not sent): no other character is
\* lost, none is duplicated or reordered, whatever the batching.
C5_StreamModuloBlank ==
  \A j \in Jobs : StreamEnded(j) =>
    /\ Gapped(BeforeEnd(pushed[j]), Sent(sendLog[j]))
    /\ NonWs(Join(Sent(sendLog[j]))) = NonWs(BeforeEnd(pushed[j]))

\* C5 as stated: the concatenation of the texts sent equals the concatenation
\* of the fragments pushed.
C5_StreamExact ==
  \A j \in Jobs : StreamEnded(j) => Join(Sent(sendLog[j])) = BeforeEnd(pushed[j])

\* three fragments went out in two sends or more, and a blank stretch did not
C5_Witness ==
  /\ StreamEnded(1)
  /\ emitted[1] = MaxStreamEmit
  /\ Len(Sent(sendLog[1])) >= 2
  /\ TLen(Join(Sent(sendLog[1]))) < TLen(BeforeEnd(pushed[1]))

\* the scenario: two transcript lines, a progress line, the end marker
Scenario == <<TranscriptLine, SecondLine, ProgressLine, EOS>>
IsPrefix(s, t) == Len(s) <= Len(t) /\ SubSeq(t, 1, Len(s)) = s

\* C18: when the worker of the one job prints two transcript lines and then
\* a line without brackets and ends, and the output task is not cut off,
\* the sends are, in this order, the first transcript line alone, the second
\* alone, and the third line alone; the completion notice comes after the
\* output task has ended and is the first notice; the owner's entry is in
\* the registry until the orchestrator ends and is gone from then on.
C18_Scenario ==
  /\ IsPrefix(pushed[1], Scenario) =>
       IsPrefix(Sent(sendLog[1]), <<TranscriptLine, SecondLine, ProgressLine>>)
  /\ pushed[1] = Scenario /\ agg[1].pc = "done" =>
       Sent(sendLog[1]) = <<TranscriptLine, SecondLine, ProgressLine>>
  /\ notices[1] # <<>> => agg[1].pc \in Final /\ notices[1][1].what = "complete"
  /\ opc[1] \in Final => notices[1] # <<>>
  /\ Present(OwnerOf(1)) <=> opc[1] \notin Final

\* the scenario has run to its end
C18_Witness ==
  /\ pushed[1] = Scenario /\ agg[1].pc = "done" /\ opc[1] = "done"
  /\ Sent(sendLog[1]) = <<TranscriptLine, SecondLine, ProgressLine>>
  /\ notices[1] = <<Notice("complete", TRUE)>>
  /\ ~Present(OwnerOf(1))

\* the pipeline of job j raised: the error text is the last fragment queued
WorkerRaised(j) ==
  /\ wpc[j] = "done" /\ Len(pushed[j]) >= 2
  /\ pushed[j][Len(pushed[j]) - 1] = ErrorText

\* the notices of job j of one kind
NoticesOf(j, what) == {n \in 1..Len(notices[j]) : notices[j][n].what = what}

\* C20: when the pipeline of a job raised and its orchestrator has ended, the
\* job has an error notice.
C20_ErrorNoticeOnFailure ==
  \A j \in Jobs : WorkerRaised(j) /\ opc[j] \in Final => NoticesOf(j, "error") # {}

\* C20, what the code does when the pipeline raises: the error text and then
\* the end marker are the last items queued and the executor future is done,
\* not failed; an output task that is not cut off sends the fragments and the
\* error text, whitespace-only stretches left out; the orchestrator goes on
\* to the completion notice as after a run without error; the entry is gone
\* when the orchestrator has ended.
C20_FailureGoesThroughTheStream ==
  \A j \in Jobs : WorkerRaised(j) =>
    /\ pushed[j][Len(pushed[j])] = EOS
    /\ \A n \in 1..(Len(pushed[j]) - 1) : pushed[j][n] # EOS
    /\ xfut[j] = "done"
    /\ StreamEnded(j) =>
         /\ Sent(sendLog[j]) # <<>>
         /\ Gapped(BeforeEnd(pushed[j]), Sent(sendLog[j]))
         /\ NonWs(Join(Sent(sendLog[j]))) = NonWs(BeforeEnd(pushed[j]))
    /\ opc[j] \in Final => ~Present(OwnerOf(j)) /\ NoticesOf(j, "complete") # {}

\* the pipeline raised after two prints, the output task sent everything and
\* the job ended with the completion notice alone
C20_Witness ==
  /\ WorkerRaised(1) /\ StreamEnded(1) /\ Len(pushed[1]) = 4
  /\ opc[1] = "done" /\ notices[1] = <<Notice("complete", TRUE)>>
  /\ ~Present(OwnerOf(1))

(***************************************************************************)
(* More properties of the chunked delivery (SpecChunk).                    *)
(***************************************************************************)
\* the chunks of a text that are handed to the send: the ones not blank
Sendable(text) == SelectSeq(SplitChunks(text), LAMBDA c : ~IsBlank(c))

\* the attempt at place i of the log was the last one of its chunk and failed
GaveUp(log, i) == ~log[i].ok /\ log[i].n = max_retries - 1

\* C21: a call of send_text_to_telegram ends by returning, whatever the
\* sends do: at every moment the chunks it has handed to the send are the
\* first of the text's chunks, in order, and when it has returned it has
\* handed every one of them, also after a chunk whose every attempt failed;
\* no chunk is attempted more than max_retries times.
C21_FailedChunkDoesNotAbort ==
  /\ agg[1].pc \in {"caller", "send", "backoff", "done"}
  /\ IsPrefix(Handed(sendLog[1]), Sendable(input))
  /\ agg[1].pc = "done" => Handed(sendLog[1]) = Sendable(input)
  /\ \A i \in 1..Len(sendLog[1]) :
       /\ sendLog[1][i].n < max_retries
       /\ GaveUp(sendLog[1], i) /\ i < Len(sendLog[1]) => sendLog[1][i + 1].n = 0

\* the call returned after every attempt at its first chunk had failed and
\* a later chunk was sent
C21_Witness ==
  /\ agg[1].pc = "done"
  /\ Len(Sendable(input)) >= 2
  /\ Len(sendLog[1]) > max_retries /\ GaveUp(sendLog[1], max_retries)
  /\ sendLog[1][Len(sendLog[1])].ok

(***************************************************************************)
(* More properties of the lifecycle (Spec).                                *)
(***************************************************************************)
\* cancel request c takes its first step in this step
CancelStarts(c) == cpc[c] = "idle" /\ cpc'[c] # "idle"

\* C22: a cancel request whose owner has no entry returns at once and
\* changes nothing: not the registry, no shutdown flag, no task, no future,
\* no cancellation is requested.
C22_CancelWithoutEntryIsNoOp ==
  [][\A c \in Cancels :
       CancelStarts(c) /\ ~Present(CancelOwner(c)) =>
         /\ cpc'[c] = "done"
         /\ UNCHANGED <<regVars, hpc, orchVars, aggVars, workVars, cinfo, capVars, input>>]_vars

\* a cancel request found no entry and returned while an orchestrator was
\* waiting for its worker, and the worker was running
C22_Witness ==
  \E c \in Cancels, j \in Jobs :
    /\ cpc[c] = "done" /\ cinfo[c] = Absent
    /\ ~Present(CancelOwner(c))
    /\ opc[j] = "awaitExec" /\ wpc[j] = "run" /\ ~ocancel[j] /\ ~shutdown_flag[oflag[j]]

(***************************************************************************)
(* Properties of repeated cancel requests (SpecTwice).                     *)
(***************************************************************************)
\* C23: a shutdown flag that is set stays set in every later state: no step
\* of a handler, an orchestrator, an output task, a worker or a cancel
\* request resets it; a cancel request that finds the flag of the entry set
\* already (set by another cancel request that is still under way or has
\* ended) leaves every flag as it is.
C23_FlagMonotonic ==
  [][/\ \A j \in Jobs : shutdown_flag[j] => shutdown_flag'[j]
     /\ \A c \in Cancels :
          /\ CancelStarts(c) /\ Present(CancelOwner(c))
          /\ shutdown_flag[user_processing_tasks[CancelOwner(c)].flag]
          => shutdown_flag' = shutdown_flag]_vars

\* two cancel requests found the same entry, one after the other set its
\* flag, and the flag is set
C23_Witness ==
  \E c, d \in Cancels :
    /\ c # d /\ cpc[c] # "idle" /\ cpc[d] # "idle"
    /\ cinfo[c].flag = 1 /\ cinfo[d].flag = 1
    /\ shutdown_flag[1]

(***************************************************************************)
(* Properties of the flag a job holds (Spec).                              *)
(***************************************************************************)
\* the jobs whose orchestrator has read a shutdown flag: its worker and its
\* output task poll that flag
Holding == {j \in Jobs : oflag[j] # 0}

\* C24: the flag a job's worker and output task poll is the flag created by
\* the job's own request, and no two jobs poll one flag.
C24_OwnFlagNeverShared ==
  /\ \A j \in Holding : oflag[j] = j
  /\ \A j, k \in Holding : j # k => oflag[j] # oflag[k]

\* the three handles of an entry
Handles(e) == <<e.task, e.executor_task, e.output_task>>

\* C25: a step leaves in an entry only handles of the job that registered
\* it (the job whose flag the entry holds), and while the entry stays the
\* same entry a handle that is written is not written again.
C25_HandlesOfRegistrantOnce ==
  [][\A o \in Owners :
       LET old == user_processing_tasks[o]
           new == user_processing_tasks'[o]
       IN  new.flag # 0 =>
             /\ \A n \in 1..3 : Handles(new)[n] \in {0, new.flag}
             /\ old.flag = new.flag /\ removals'[o] = removals[o] =>
                  \A n \in 1..3 : Handles(old)[n] # 0 => Handles(new)[n] = Handles(old)[n]]_vars

(***************************************************************************)
(* Properties of the jobs of two owners (SpecPair).                        *)
(***************************************************************************)
\* the lines printed that reached queue j
Lines(j) == SelectSeq(pushed[j], LAMBDA f : f \notin {EOS, ErrorText})

\* C26: with a job of each of two owners running, every line a worker
\* prints goes into the queue of its own job: a queue holds only lines of
\* its own worker, as many as the worker has printed; none is in the queue
\* of the other owner's job and none is lost to every queue.
C26_LinesReachOwnQueue ==
  \A j \in PairJobs :
    /\ \A n \in 1..Len(Lines(j)) : Lines(j)[n] = FragOf(j)
    /\ Len(Lines(j)) = emitted[j]

(***************************************************************************)
(* Properties of the event loop (Spec).                                    *)
(***************************************************************************)
\* C27: while the output task of a job waits at its queue and the queue is
\* empty, a cancel request of the owner that has not begun can take its
\* first step, the one that sets the shutdown flag.
C27_CancelRunsWhileQueueEmpty ==
  \A c \in LifeCancels, j \in OwnJobs :
    agg[j].pc = "poll" /\ output_queue[j] = <<>> /\ cpc[c] = "idle"
      => ENABLED CancelBegin(c)

(***************************************************************************)
(* Properties of a cancel request and a later request (Spec).              *)
(***************************************************************************)
\* cancel request c has returned; it found the entry of job j before the
\* worker of job j was submitted
CancelledEarly(c, j) ==
  cpc[c] = "done" /\ cinfo[c].flag = j /\ cinfo[c].executor_task = 0

\* C28: after a cancel request that found a job's entry before the job's
\* worker was started has returned, the worker of that job is not running
\* with a flag that is not set.
C28_EarlyCancelNotLost ==
  \A c \in Cancels, j \in Jobs : CancelledEarly(c, j) => ~LiveUnflagged(j)

\* this step deletes the entry of owner o
Removed(o) == Present(o) /\ ~Present(o)'

\* C29: when the last step of a cancel request or the final cleanup of an
\* orchestrator deletes an entry, it is the entry the cancel request found
\* when it began, or the entry registered by the orchestrator's own request.
C29_RemovalOfOwnEntryOnly ==
  [][\A o \in Owners :
       Removed(o) =>
         LET f == user_processing_tasks[o].flag IN
         /\ \A j \in Jobs : opc'[j] # opc[j] => j = f
         /\ \A c \in Cancels : cpc'[c] # cpc[c] => cinfo'[c].flag = f]_vars

(***************************************************************************)
(* Properties of a handler that fails before its orchestrator exists.      *)
(***************************************************************************)
\* the handler of request j ended on a failure after its check-and-insert
\* and before it created the orchestrator task
HandlerFailed(j) == hpc[j] \in {"crashed", "failed"} /\ Accepted(j)

\* C30: when the handler of an accepted request has ended on a failure
\* before its orchestrator existed, the entry it registered is not in the
\* registry and no worker was started for the request.
C30_FailedHandlerLeavesNoEntry ==
  \A j \in Jobs : HandlerFailed(j) =>
    /\ user_processing_tasks[OwnerOf(j)].flag # j
    /\ opc[j] = "none" /\ wpc[j] = "none"

(***************************************************************************)
(* More properties of the output stream (SpecStream).                      *)
(***************************************************************************)
\* in this step the output task of job j takes a fragment from its queue
Popped(j) ==
  /\ agg[j].pc = "poll" /\ output_queue[j] # <<>> /\ Head(output_queue[j]) # EOS
  /\ output_queue'[j] = Tail(output_queue[j])

\* the buffer of job j with the head of its queue appended
Appended(j) == Cat(agg[j].buffer, Head(output_queue[j]))

\* after this step the whole buffer is handed to the delivery / is kept
Flushed(j) == agg'[j].pc = "send" /\ agg'[j].chunks = SplitChunks(Appended(j))
Kept(j) == agg'[j].pc = "poll" /\ agg'[j].buffer = Appended(j)

Delivering(j) == agg[j].pc \in {"send", "backoff"}

\* C32: no blank text reaches client.send_message, neither as the text of a
\* flush nor as one of its chunks, and when the delivery of a flush returns
\* the output task either has an empty buffer or is over.
C32_NoBlankSendAndBufferCleared ==
  /\ [](\A j \in Jobs :
          /\ Delivering(j) =>
               /\ ~IsBlank(agg[j].buffer)
               /\ ~IsBlank(agg[j].chunks[agg[j].i])
          /\ \A n \in 1..Len(sendLog[j]) : ~IsBlank(sendLog[j][n].t))
  /\ [][\A j \in Jobs : Delivering(j) /\ ~Delivering(j)' /\ agg'[j].pc # "cancelled" =>
          \/ agg'[j].pc = "poll" /\ agg'[j].buffer = Empty
          \/ agg'[j].pc = "done"]_vars

\* after a flush that was sent, a blank line sits in the buffer and the
\* output task polls on without sending it
C32_Witness ==
  /\ agg[1].pc = "poll" /\ Len(sendLog[1]) > 0 /\ agg[1].sent_before
  /\ agg[1].buffer = Cat(Empty, BlankLine)
  /\ output_queue[1] = <<>> /\ Len(pushed[1]) >= 2

(***************************************************************************)
(* The end of the stream, under the fairness of a running process: the     *)
(* event loop resumes a coroutine that can run, the worker runs and        *)
(* returns, an awaited send returns.                                       *)
(***************************************************************************)
MaxEndEmit == 2
EndFrags == {TranscriptLine, ProgressLine}

NextEnd ==
  \/ \E j \in OwnJobs : WorkerBegin(j)
  \/ \E j \in OwnJobs, frag \in EndFrags : WorkerPrint(j, frag, MaxEndEmit, TRUE)
  \/ \E j \in OwnJobs, raised \in BOOLEAN : WorkerEnd(j, raised, TRUE)
  \/ \E j \in OwnJobs : AggStart(j)
  \/ \E j \in OwnJobs, elapsed \in BOOLEAN : AggFragment(j, elapsed)
  \/ \E j \in OwnJobs : AggEnd(j)
  \/ \E j \in OwnJobs : AggTimeout(j)
  \/ \E j \in OwnJobs : SendOk(j, TRUE)
  \/ \E j \in OwnJobs : AggCancelled(j)
  \/ \E j \in OwnJobs, resetOk \in BOOLEAN : OrchExecDone(j, resetOk)
  \/ \E j \in OwnJobs, resetOk \in BOOLEAN : OrchOutDone(j, resetOk)
  \/ \E j \in OwnJobs : OrchOutTimeout(j)
  \/ \E j \in OwnJobs, ok \in BOOLEAN, resetOk \in BOOLEAN : OrchComplete(j, ok, resetOk)
  \/ \E j \in OwnJobs, ok \in BOOLEAN, resetOk \in BOOLEAN : OrchErrNotice(j, ok, resetOk)

SpecEnd == InitStream /\ [][NextEnd]_vars /\ WF_vars(NextEnd)

\* in this step the output task of job j takes the end marker from its queue
PoppedEnd(j) ==
  /\ agg[j].pc = "poll" /\ output_queue[j] # <<>> /\ Head(output_queue[j]) = EOS
  /\ output_queue'[j] = Tail(output_queue[j])

\* what taking the end marker does, and that a done output task stays as it is
EndFlushesThenDone ==
  [][\A j \in Jobs :
       /\ PoppedEnd(j) =>
            IF IsBlank(agg[j].buffer) THEN agg'[j].pc = "done"
            ELSE /\ agg'[j].pc = "send" /\ agg'[j].k = "break"
                 /\ agg'[j].chunks = SplitChunks(agg[j].buffer)
       /\ Delivering(j) /\ agg[j].k = "break" /\ ~Delivering(j)' =>
            agg'[j].pc \in {"done", "cancelled"}
       /\ agg[j].pc = "done" => agg'[j] = agg[j]]_vars

\* C33 as stated: once the worker has ended, the output task reaches DONE.
C33_WorkerEndLeadsToDone ==
  /\ EndFlushesThenDone
  /\ \A j \in Jobs : wpc[j] = "done" ~> agg[j].pc = "done"

\* C33: when the output task takes the end marker it flushes its non-blank
\* buffer and is done (or is cancelled during that flush), and a done output
\* task does nothing more; once the worker has ended, the output task
\* eventually is done or has been cancelled.
C33_WorkerEndLeadsToDoneOrCancelled ==
  /\ EndFlushesThenDone
  /\ \A j \in Jobs : wpc[j] = "done" ~> agg[j].pc \in {"done", "cancelled"}

\* the worker has ended, the end marker was taken, and the output task is
\* done after the flush of what it had buffered
C33_Witness ==
  /\ wpc[1] = "done" /\ output_queue[1] = <<>> /\ agg[1].pc = "done"
  /\ ~IsBlank(agg[1].buffer) /\ opc[1] = "awaitExec"
  /\ Len(sendLog[1]) > 0 /\ sendLog[1][Len(sendLog[1])].t = agg[1].buffer

(***************************************************************************)
(* The end marker of a worker run (SpecTwice: a run that is cancelled).    *)
(***************************************************************************)
\* how many end markers a queue holds
Markers(q) == Cardinality({i \in DOMAIN q : q[i] = EOS})

\* in this step the run of job j returns
RunEnds(j) == wpc[j] = "run" /\ wpc'[j] = "done"

\* C34: when a run of the worker returns (at its end, by an exception, or
\* early at any point, the flag set or not) it puts the end marker in its
\* queue once, as the last item; no other step puts an end marker in that
\* queue, and a run that has returned prints nothing more.
C34_MarkerOnceAndLast ==
  [][\A j \in Jobs :
       /\ RunEnds(j) =>
            \E items \in {<<EOS>>, <<ErrorText, EOS>>} :
               output_queue'[j] = output_queue[j] \o items
       /\ ~RunEnds(j) => Markers(output_queue'[j]) <= Markers(output_queue[j])
       /\ wpc[j] = "done" => wpc'[j] = "done" /\ emitted'[j] = emitted[j]]_vars

\* a run that returned with the flag set and nothing printed: the end marker
\* is the only item of its queue
C34_Witness ==
  /\ shutdown_flag[1] /\ wpc[1] = "done" /\ emitted[1] = 0
  /\ output_queue[1] = <<EOS>> /\ agg[1].pc = "cancelled"

(***************************************************************************)
(* The retry loop of a chunk (SpecChunk).                                  *)
(***************************************************************************)
\* in this step an attempt to send the chunk of job j ends
Attempted(j) == agg[j].pc = "send" /\ agg'[j] # agg[j] /\ agg'[j].pc # "cancelled"

\* after this step the delivery of job j is past the chunk it was at
PastChunk(j) ==
  /\ agg'[j].pc # "backoff"
  /\ agg'[j].pc = "send" => agg'[j].i > agg[j].i /\ agg'[j].attempt = 0

\* the successful attempts in a log
Successes(log) == {n \in DOMAIN log : log[n].ok}

\* C35: a chunk is attempted at most max_retries times, numbered from 0; a
\* success ends its attempts, so the successes of a call are not more than
\* its chunks; failed attempt k, when it is not the last, is followed by a
\* wait of 0.5 * 2^k s and then by attempt k + 1 of the same chunk; the last
\* failed attempt is followed by no wait.
C35_RetriesAndBackoff ==
  /\ [](\A j \in Jobs :
          /\ agg[j].attempt < max_retries
          /\ agg[j].pc = "backoff" => agg[j].wait = 500 * 2 ^ agg[j].attempt
          /\ Cardinality(Successes(sendLog[j])) <= Len(SplitChunks(input)))
  /\ [][\A j \in Jobs :
          /\ Attempted(j) =>
               LET e == sendLog'[j][Len(sendLog'[j])] IN
               /\ Len(sendLog'[j]) = Len(sendLog[j]) + 1
               /\ e.n = agg[j].attempt /\ e.t = agg[j].chunks[agg[j].i]
               /\ IF e.ok \/ e.n = max_retries - 1 THEN PastChunk(j)
                  ELSE /\ agg'[j].pc = "backoff" /\ agg'[j].i = agg[j].i
                       /\ agg'[j].attempt = e.n
          /\ agg[j].pc = "backoff" /\ agg'[j] # agg[j] /\ agg'[j].pc # "cancelled" =>
               /\ agg'[j].pc = "send" /\ agg'[j].i = agg[j].i
               /\ agg'[j].attempt = agg[j].attempt + 1]_vars

\* a chunk has failed twice and the call waits 1 s, the double of its first
\* wait, before the third attempt
C35_Witness ==
  /\ Len(sendLog[1]) = 2 /\ agg[1].pc = "backoff"
  /\ \A n \in 1..2 : sendLog[1][n].n = n - 1 /\ ~sendLog[1][n].ok
  /\ sendLog[1][1].t = sendLog[1][2].t
  /\ agg[1].attempt = 1 /\ agg[1].wait = 1000

(***************************************************************************)
(* The end of a cancel cascade (SpecTwice: cancel requests that overlap).   *)
(***************************************************************************)
\* cancel_user_processing of request c has returned or was left by an exception
Ended(c) == cpc[c] \in {"done", "aborted", "raised"}

\* the owner's entry is not the one request c copied
EntryGone(c) == user_processing_tasks[CancelOwner(c)].flag # cinfo[c].flag

\* C36: when a cancel request that found an entry is over, that entry is no
\* longer in the registry.
C36_CancelLeavesNoEntry ==
  \A c \in Cancels : Ended(c) /\ cinfo[c].flag # 0 => EntryGone(c)

\* every cancel request that has begun comes to an end
C36_CancelTerminates ==
  \A c \in LifeCancels : cpc[c] # "idle" ~> Ended(c)

\* a cancel request was left by the CancelledError of the future that the
\* time-out of another request cancelled; the entry is still there and the
\* worker has not returned
C36_Witness ==
  \E c, d \in Cancels :
    /\ cpc[c] = "aborted" /\ cpc[d] = "waitTask" /\ cinfo[c] = cinfo[d]
    /\ ~EntryGone(c) /\ xfut[cinfo[c].executor_task] = "cancelled"
    /\ wpc[cinfo[c].executor_task] \in {"queued", "run"}

(***************************************************************************)
(* The orchestrator's wait for the output task (SpecLive).                 *)
(***************************************************************************)
\* the orchestrator of job j is in the wait for its output task
AwaitsOutput(j) == opc[j] \in {"awaitOut1", "awaitOut2"}

\* C37: however the wait for the worker ends, the orchestrator goes to the
\* 30 s wait for the output task unless that task is done already; when the
\* 30 s run out it cancels the task and waits again; it leaves the wait only
\* with the task done, and it always leaves it.
C37_BoundedWaitForOutput ==
  /\ [][\A j \in Jobs :
          /\ opc[j] = "awaitExec" /\ opc'[j] # "awaitExec" =>
               opc'[j] = "awaitOut1" \/ agg[j].pc \in Final
          /\ opc[j] = "awaitOut1" /\ opc'[j] # "awaitOut1" =>
               \/ opc'[j] = "awaitOut2" /\ acancel'[j]
               \/ agg[j].pc \in Final
          /\ opc[j] = "awaitOut2" /\ opc'[j] # "awaitOut2" => agg[j].pc \in Final]_vars
  /\ \A j \in Jobs : AwaitsOutput(j) ~> ~AwaitsOutput(j)

\* the worker ended, the 30 s ran out while a send was awaited, the output
\* task was cancelled and the orchestrator is at its completion notice
C37_Witness ==
  /\ opc[1] = "completeSend" /\ agg[1].pc = "cancelled" /\ wpc[1] = "done"
  /\ ~shutdown_flag[1] /\ cpc[1] = "idle"

\* in this step the orchestrator of job j leaves its wait for the worker
LeavesExec(j) == opc[j] = "awaitExec" /\ opc'[j] # "awaitExec"

\* C38: when the orchestrator leaves its wait for the worker, by a
\* cancellation as well, the worker is not running any more.
C38_WorkerSettledBeforeTeardown ==
  [][\A j \in Jobs : LeavesExec(j) => wpc[j] # "run"]_vars

\* the orchestrator was cancelled in its wait for the worker and has gone
\* through its teardown to the end, entry deleted, with the worker running
C38_Witness ==
  /\ opc[1] \in Final /\ wpc[1] = "run" /\ xfut[1] = "cancelled"
  /\ ~Present(OwnerOf(1)) /\ agg[1].pc \in Final /\ shutdown_flag[1]

(***************************************************************************)
(* The completion notice and the output task.                              *)
(***************************************************************************)
\* the orchestrator of job j awaits the send of its completion notice, or
\* the notice was sent
Completing(j) ==
  \/ opc[j] = "completeSend"
  \/ \E n \in DOMAIN notices[j] : notices[j][n].what = "complete"

\* C39: the orchestrator of a job hands over its completion notice only when
\* the output task of the job is done or cancelled, and from then on that
\* output task does nothing: it takes nothing from the queue and sends
\* nothing.
C39_NothingAfterCompletion ==
  /\ [](\A j \in Jobs : Completing(j) => agg[j].pc \in Final)
  /\ [][\A j \in Jobs : Completing(j) =>
          /\ agg'[j] = agg[j] /\ sendLog'[j] = sendLog[j]
          /\ Len(output_queue'[j]) >= Len(output_queue[j])]_vars

\* the completion notice of a job whose output task sent what the worker
\* printed and ended at the end marker
C39_Witness ==
  /\ Completing(1) /\ agg[1].pc = "done" /\ opc[1] = "done"
  /\ Len(sendLog[1]) >= 2 /\ Len(pushed[1]) >= 3

(***************************************************************************)
(* server.py: the shutdown of the server.  The finally block of lifespan   *)
(* lists the owners that have an entry and awaits cancel_user_processing   *)
(* for one after the other, then stops the client.  It starts here with a  *)
(* job of each owner; a cancel command of the first owner may come in too. *)
(***************************************************************************)
ShutdownCalls == {ShutdownCall(o) : o \in Owners}
JobOf(o) == CHOOSE k \in PairJobs : OwnerOf(k) = o

\* the for loop is at owner o: the calls for the owners before o returned, or
\* raised an Exception, which the loop logs
LoopAt(o) == \A p \in Owners : p < o => cpc[ShutdownCall(p)] \in {"done", "raised"}

\* "await cancel_user_processing(user_id)" of the loop, up to its first await
ShutdownCancel(o) == LoopAt(o) /\ CancelBegin(ShutdownCall(o))

NextShutdown ==
  \/ \E j \in PairJobs : OrchLaunch(j)
  \/ \E j \in PairJobs : WorkerBegin(j)
  \/ \E j \in PairJobs, raised \in BOOLEAN : WorkerEnd(j, raised, FALSE)
  \/ \E j \in PairJobs : AggCancelled(j)
  \/ \E j \in PairJobs : AggStart(j)
  \/ \E j \in PairJobs : AggEnd(j)
  \/ \E j \in PairJobs : AggTimeout(j)
  \/ \E j \in PairJobs, resetOk \in BOOLEAN : OrchExecDone(j, resetOk)
  \/ \E j \in PairJobs, resetOk \in BOOLEAN : OrchOutDone(j, resetOk)
  \/ \E j \in PairJobs : OrchOutTimeout(j)
  \/ \E j \in PairJobs, ok \in BOOLEAN, resetOk \in BOOLEAN : OrchComplete(j, ok, resetOk)
  \/ \E j \in PairJobs, ok \in BOOLEAN, resetOk \in BOOLEAN : OrchCancelNotice(j, ok, resetOk)
  \/ \E j \in PairJobs, ok \in BOOLEAN, resetOk \in BOOLEAN : OrchErrNotice(j, ok, resetOk)
  \/ \E o \in Owners : ShutdownCancel(o)
  \/ \E c \in LifeCancels : CancelBegin(c)
  \/ \E c \in ShutdownCalls \cup LifeCancels : CancelOutDone(c)
  \/ \E c \in ShutdownCalls \cup LifeCancels : CancelExecDone(c)
  \/ \E c \in ShutdownCalls \cup LifeCancels : CancelExecTimeout(c)
  \/ \E c \in ShutdownCalls \cup LifeCancels : CancelTaskDone(c)
  \/ \E c \in ShutdownCalls \cup LifeCancels : CancelTaskTimeout(c)

SpecShutdown == InitPair /\ [][NextShutdown]_vars

\* the loop is over: every call returned or raised an Exception, or one call
\* was left by a CancelledError
LoopOver == \A o \in Owners : cpc[ShutdownCall(o)] \in {"done", "raised"}
LoopLeft == LoopOver \/ \E o \in Owners : cpc[ShutdownCall(o)] = "aborted"

====
